---- MODULE Spec2Model ----
(***************************************************************************)
(* The symbolic heap (PathsTree) of the refinement type checker: a map     *)
(* from locations to Nodes, with fold / unfold, reconciliation, path       *)
(* iteration and place resolution; the substitution of expressions        *)
(* (Subst) and the check of the declared invariants of an ADT              *)
(* (check_invariants).                                                     *)
(*                                                                         *)
(* Fields and variants are numbered from 0 as in the source; TLA+          *)
(* sequences are indexed from 1, so field f of a Record is fields[f + 1].  *)
(***************************************************************************)
EXTENDS Integers, Sequences, FiniteSets, TLC

VARIABLES
    heap,              \* PathsTree.map of the heap being checked (self)
    other,             \* PathsTree.map of a second heap (a clone taken at a branch point)
    log,               \* the operations performed so far: name, inputs, heaps before, result
    fatal,             \* "none", or the kind of panic that ended the run
    debug_assertions,  \* whether the build keeps debug_assert_eq! (debug) or drops it (release)
    chk                \* the run of check_invariants: where it stands and what it did so far

vars == <<heap, other, log, fatal, debug_assertions, chk>>

-----------------------------------------------------------------------------
(* Bounds                                                                  *)

MaxOps == 3          \* operations per run of the heap specification
MaxFoldOps == 3      \* operations per run of the fold / unfold specification
MaxPlaceLen == 4     \* longest place projection in the resolution specification
MaxJoinOps == 3      \* operations per run of the reconciliation specification

Locs == {"x", "y", "z"}

-----------------------------------------------------------------------------
(* Expressions, types, paths                                               *)

Const(n) == [ek |-> "Const", n |-> n]
BVar(i) == [ek |-> "BVar", n |-> i]

Path(l, pr) == [loc |-> l, proj |-> pr]

IntBty == [b |-> "Int"]
AdtBty(d, substs) == [b |-> "Adt", def |-> d, substs |-> substs]
Indexed(bty, idxs) == [kind |-> "Indexed", bty |-> bty, idxs |-> idxs]
I32(e) == Indexed(IntBty, <<e>>)
Ptr(p) == [kind |-> "Ptr", path |-> p]
Ref(m, t) == [kind |-> "Ref", mode |-> m, ty |-> t]
Uninit == [kind |-> "Uninit"]
Param(j) == [kind |-> "Param", n |-> j]

\* RefKind, ordered Shr < Mut; min keeps the weaker mode
RefKind_min(m1, m2) == IF m1 = "Shr" \/ m2 = "Shr" THEN "Shr" ELSE "Mut"

\* Node::Ty(ty) and Node::Adt(adt_def, variant_idx, fields)
NodeTy(ty) == [tag |-> "Ty", ty |-> ty]
NodeAdt(d, v, fields) == [tag |-> "Adt", adt |-> d, variant |-> v, fields |-> fields]

-----------------------------------------------------------------------------
(* The ADT declarations supplied by the typed IR: per ADT the number of    *)
(* declared index sorts and, per variant, the field types of its           *)
(* signature, written over the bound index variables BVar(i) and the       *)
(* generic parameters Param(j).                                            *)

AdtDefs ==
    [ Pair    |-> [sorts |-> 2, variants |-> << <<I32(BVar(0)), I32(BVar(1))>> >>],
      Outer   |-> [sorts |-> 2, variants |->
                     << <<Indexed(AdtBty("Pair", <<>>), <<BVar(0), BVar(1)>>),
                          I32(BVar(1))>> >>],
      Opt     |-> [sorts |-> 1, variants |->
                     << <<I32(BVar(0))>>, <<I32(BVar(0)), Uninit>> >>],
      ShrBox  |-> [sorts |-> 1, variants |-> << <<Ref("Shr", I32(BVar(0)))>> >>],
      MutBox  |-> [sorts |-> 1, variants |-> << <<Ref("Mut", I32(BVar(0)))>> >>],
      MutPair |-> [sorts |-> 1, variants |->
                     << <<Ref("Mut", I32(BVar(0))), I32(BVar(0))>> >>],
      Phantom |-> [sorts |-> 1, variants |-> << <<I32(Const(0))>> >>],
      PtrBox  |-> [sorts |-> 1, variants |->
                     << <<Ptr(Path("y", <<>>)), I32(BVar(0))>> >>],
      Wrap    |-> [sorts |-> 1, variants |-> << <<Param(0), I32(BVar(0))>> >>] ]

AdtNames == DOMAIN AdtDefs

\* AdtDef::sorts and AdtDef::variant_sig(variant_idx).skip_binders().args()
AdtDef_sorts(d) == AdtDefs[d].sorts
AdtDef_variant_sig(d, v) == AdtDefs[d].variants[v + 1]
NumVariants(d) == Len(AdtDefs[d].variants)

-----------------------------------------------------------------------------
(* Ty::unfold: the field types of a variant, with the ADT's bound indices  *)
(* replaced by the index expressions of the value and its generic          *)
(* parameters by the generic arguments.                                    *)

subst_idx(e, idxs) ==
    IF e.ek = "BVar" /\ e.n < Len(idxs) THEN idxs[e.n + 1] ELSE e

RECURSIVE replace_bound_vars(_, _, _)
replace_bound_vars(ty, idxs, substs) ==
    CASE ty.kind = "Indexed" ->
           Indexed(
             IF ty.bty.b = "Adt"
               THEN AdtBty(ty.bty.def,
                           [i \in DOMAIN ty.bty.substs |->
                              replace_bound_vars(ty.bty.substs[i], idxs, substs)])
               ELSE ty.bty,
             [i \in DOMAIN ty.idxs |-> subst_idx(ty.idxs[i], idxs)])
      [] ty.kind = "Ref" -> Ref(ty.mode, replace_bound_vars(ty.ty, idxs, substs))
      [] ty.kind = "Param" ->
           IF ty.n < Len(substs) THEN substs[ty.n + 1] ELSE ty
      [] OTHER -> ty

\* Some((adt_def, fields)), or none when the type does not decompose under the variant
Ty_unfold(ty, v) ==
    IF /\ ty.kind = "Indexed"
       /\ ty.bty.b = "Adt"
       /\ v < NumVariants(ty.bty.def)
    THEN [some |-> TRUE,
          adt |-> ty.bty.def,
          fields |-> [i \in DOMAIN AdtDef_variant_sig(ty.bty.def, v) |->
                        replace_bound_vars(AdtDef_variant_sig(ty.bty.def, v)[i],
                                           ty.idxs, ty.bty.substs)]]
    ELSE [some |-> FALSE]

-----------------------------------------------------------------------------
(* fold: structural unification of the folded field types against the      *)
(* variant signature.  params is the ParamInst map, a function from the    *)
(* indices assigned so far to their expressions.                           *)

NoParams == [i \in {} |-> Const(0)]

\* param_infer::infer_from_exprs: a bound index variable of the signature is
\* assigned the expression found at the same position of the actual type
infer_from_exprs(params, e1, e2) ==
    IF e2.ek = "BVar"
    THEN [i \in (DOMAIN params) \cup {e2.n} |-> IF i = e2.n THEN e1 ELSE params[i]]
    ELSE params

MinLen(s, t) == IF Len(s) < Len(t) THEN Len(s) ELSE Len(t)

RECURSIVE infer_indices(_, _, _, _)
infer_indices(params, indices1, indices2, i) ==
    IF i > MinLen(indices1, indices2) THEN params
    ELSE infer_indices(infer_from_exprs(params, indices1[i], indices2[i]),
                       indices1, indices2, i + 1)

\* The result of a unification step: the map so far, and the panic it met (if any)
InferOk(params) == [params |-> params, fatal |-> "none"]
InferFatal(params, k) == [params |-> params, fatal |-> k]

RECURSIVE ty_infer_folding(_, _, _)
RECURSIVE infer_substs(_, _, _, _)

\* ty_infer_folding descending into every pair of references, mutable ones
\* included, and skipping a pair of pointers
ty_infer_folding_anyref(params, ty1, ty2) ==
    CASE ty1.kind = "Indexed" /\ ty2.kind = "Indexed" ->
           InferOk(infer_indices(params, ty1.idxs, ty2.idxs, 1))
      [] ty1.kind = "Ref" /\ ty2.kind = "Ref" ->
           ty_infer_folding(params, ty1.ty, ty2.ty)
      [] OTHER -> InferOk(params)

\* the loop of bty_infer_folding over the generic arguments; r is the result of
\* the unification of the i-th pair
infer_substs_next(r, substs1, substs2, i) ==
    IF r.fatal # "none" THEN r ELSE infer_substs(r.params, substs1, substs2, i + 1)

infer_substs(params, substs1, substs2, i) ==
    IF i > MinLen(substs1, substs2) THEN InferOk(params)
    ELSE infer_substs_next(ty_infer_folding(params, substs1[i], substs2[i]),
                           substs1, substs2, i)

bty_infer_folding(params, bty1, bty2) ==
    IF bty1.b = "Adt" /\ bty2.b = "Adt"
    THEN IF debug_assertions /\
            (bty1.def # bty2.def \/ Len(bty1.substs) # Len(bty2.substs))
         THEN InferFatal(params, "debug_assert")
         ELSE infer_substs(params, bty1.substs, bty2.substs, 1)
    ELSE InferOk(params)

\* the Indexed / Indexed arm after bty_infer_folding returned r: index by index
infer_indexed(r, indices1, indices2) ==
    IF r.fatal # "none" THEN r
    ELSE InferOk(infer_indices(r.params, indices1, indices2, 1))

ty_infer_folding(params, ty1, ty2) ==
    CASE ty1.kind = "Indexed" /\ ty2.kind = "Indexed" ->
           infer_indexed(bty_infer_folding(params, ty1.bty, ty2.bty), ty1.idxs, ty2.idxs)
      [] ty1.kind = "Ptr" /\ ty2.kind = "Ptr" -> InferFatal(params, "todo")
      [] /\ ty1.kind = "Ref" /\ ty2.kind = "Ref"
         /\ ty1.mode = "Shr" /\ ty2.mode = "Shr" ->
           ty_infer_folding(params, ty1.ty, ty2.ty)
      [] OTHER -> InferOk(params)

\* the loop of fn fold over the fields zipped with the signature
RECURSIVE infer_fields(_, _, _, _)

infer_fields_next(r, tys, sig, i) ==
    IF r.fatal # "none" THEN r ELSE infer_fields(r.params, tys, sig, i + 1)

infer_fields(params, tys, sig, i) ==
    IF i > MinLen(tys, sig) THEN InferOk(params)
    ELSE infer_fields_next(ty_infer_folding(params, tys[i], sig[i]), tys, sig, i)

\* fold_indices collecting the indices from the last declared sort to the first
fold_indices_rev(d, r) ==
    IF r.fatal # "none" THEN [indices |-> <<>>, fatal |-> r.fatal]
    ELSE IF \E idx \in 0 .. (AdtDef_sorts(d) - 1) : idx \notin DOMAIN r.params
         THEN [indices |-> <<>>, fatal |-> "unwrap"]
         ELSE [indices |-> [i \in 1 .. AdtDef_sorts(d) |-> r.params[AdtDef_sorts(d) - i]],
               fatal |-> "none"]

\* fold_indices leaving out the sorts with no entry instead of unwrapping them
fold_indices_skip(d, r) ==
    IF r.fatal # "none" THEN [indices |-> <<>>, fatal |-> r.fatal]
    ELSE [indices |-> [i \in 1 .. Cardinality((DOMAIN r.params) \cap (0 .. (AdtDef_sorts(d) - 1)))
                         |-> r.params[CHOOSE idx \in DOMAIN r.params :
                                        Cardinality({j \in DOMAIN r.params : j < idx}) = i - 1]],
          fatal |-> "none"]

\* the indices collected from the map r.params, one per declared sort; a sort
\* with no entry is the unwrap of None
fold_indices(d, r) ==
    IF r.fatal # "none" THEN [indices |-> <<>>, fatal |-> r.fatal]
    ELSE IF \E idx \in 0 .. (AdtDef_sorts(d) - 1) : idx \notin DOMAIN r.params
         THEN [indices |-> <<>>, fatal |-> "unwrap"]
         ELSE [indices |-> [i \in 1 .. AdtDef_sorts(d) |-> r.params[i - 1]],
               fatal |-> "none"]

\* fn fold: the indices of the folded value, or a panic
fold(d, tys, v) ==
    fold_indices(d, infer_fields(NoParams, tys, AdtDef_variant_sig(d, v), 1))

-----------------------------------------------------------------------------
(* Node operations.  Each returns the node as the operation leaves it and  *)
(* the panic it met (if any).                                              *)

NodeOk(n) == [node |-> n, fatal |-> "none"]
NodeFatal(n, k) == [node |-> n, fatal |-> k]

\* Node_unfold_ty losing the last of several fields
Node_unfold_ty_short(node, v, u) ==
    IF ~u.some THEN NodeFatal(node, "unwrap")
    ELSE NodeOk(NodeAdt(u.adt, v,
                        [i \in 1 .. (IF Len(u.fields) > 1 THEN Len(u.fields) - 1
                                     ELSE Len(u.fields)) |-> NodeTy(u.fields[i])]))

\* Node::unfold of a Leaf: u is what Ty::unfold returned
Node_unfold_ty(node, v, u) ==
    IF ~u.some THEN NodeFatal(node, "unwrap")
    ELSE NodeOk(NodeAdt(u.adt, v, [i \in DOMAIN u.fields |-> NodeTy(u.fields[i])]))

\* Node::unfold building the fields of a Record again from the signature of
\* the variant
Node_unfold_again(node, v) ==
    IF node.tag = "Ty" THEN Node_unfold_ty(node, v, Ty_unfold(node.ty, v))
    ELSE IF debug_assertions /\ v # node.variant THEN NodeFatal(node, "debug_assert")
    ELSE NodeOk(NodeAdt(node.adt, v,
                        [i \in DOMAIN AdtDef_variant_sig(node.adt, node.variant) |->
                           NodeTy(AdtDef_variant_sig(node.adt, node.variant)[i])]))

\* Node::unfold
Node_unfold(node, v) ==
    IF node.tag = "Ty" THEN Node_unfold_ty(node, v, Ty_unfold(node.ty, v))
    ELSE IF debug_assertions /\ v # node.variant THEN NodeFatal(node, "debug_assert")
    ELSE NodeOk(node)

\* Node::fold, bottom-up; the fields are folded in order and the first panic ends it
RECURSIVE Node_fold(_)
RECURSIVE fold_fields(_, _)

fold_fields_next(fields, i, r) ==
    IF r.fatal # "none" THEN [fields |-> fields, fatal |-> r.fatal]
    ELSE fold_fields([fields EXCEPT ![i] = r.node], i + 1)

fold_fields(fields, i) ==
    IF i > Len(fields) THEN [fields |-> fields, fatal |-> "none"]
    ELSE fold_fields_next(fields, i, Node_fold(fields[i]))

\* the Leaf that replaces the Record: the ADT with no generic arguments, indexed
\* by what fn fold returned
Node_fold_leaf(node, r) ==
    IF r.fatal # "none" THEN NodeFatal(node, r.fatal)
    ELSE NodeOk(NodeTy(Indexed(AdtBty(node.adt, <<>>), r.indices)))

Node_fold_record(node, fs) ==
    IF fs.fatal # "none" THEN NodeFatal(node, fs.fatal)
    ELSE Node_fold_leaf(node, fold(node.adt,
                                   [i \in DOMAIN fs.fields |-> fs.fields[i].ty],
                                   node.variant))

\* Node::fold folding a Record of Leaves only: a Record with a Record among its
\* fields is left as it is
Node_fold_shallow(node) ==
    IF node.tag = "Ty" THEN NodeOk(node)
    ELSE IF \E i \in DOMAIN node.fields : node.fields[i].tag = "Adt" THEN NodeOk(node)
    ELSE Node_fold_record(node, [fields |-> node.fields, fatal |-> "none"])

Node_fold(node) ==
    IF node.tag = "Ty" THEN NodeOk(node)
    ELSE Node_fold_record(node, fold_fields(node.fields, 1))

-----------------------------------------------------------------------------
(* Positions inside a root node: pos is the sequence of fields walked from *)
(* the root.                                                               *)

RECURSIVE NodeAt(_, _)
NodeAt(root, pos) ==
    IF pos = <<>> THEN root ELSE NodeAt(root.fields[Head(pos) + 1], Tail(pos))

RECURSIVE ReplaceAt(_, _, _)
ReplaceAt(root, pos, n) ==
    IF pos = <<>> THEN n
    ELSE [root EXCEPT !.fields[Head(pos) + 1] = ReplaceAt(@, Tail(pos), n)]

\* the indexing fields[field] of Node::proj, r being the node after the unfold
Node_proj_index(r, field) ==
    IF r.fatal # "none" THEN r
    ELSE IF field >= Len(r.node.fields) THEN NodeFatal(r.node, "index")
    ELSE r

\* Node::proj: the node after the implicit unfold under variant 0; the child is fields[field]
Node_proj(node, field) ==
    Node_proj_index(IF node.tag = "Ty" THEN Node_unfold(node, 0) ELSE NodeOk(node), field)

\* Node::unfold_with: both nodes as the call leaves them
RECURSIVE Node_unfold_with(_, _)
RECURSIVE unfold_with_fields(_, _, _)

PairOk(n1, n2) == [n1 |-> n1, n2 |-> n2, fatal |-> "none"]
PairFatal(n1, n2, k) == [n1 |-> n1, n2 |-> n2, fatal |-> k]

unfold_with_fields_next(n1, n2, i, r) ==
    IF r.fatal # "none" THEN PairFatal(n1, n2, r.fatal)
    ELSE unfold_with_fields([n1 EXCEPT !.fields[i] = r.n1],
                            [n2 EXCEPT !.fields[i] = r.n2], i + 1)

unfold_with_fields(n1, n2, i) ==
    IF i > MinLen(n1.fields, n2.fields) THEN PairOk(n1, n2)
    ELSE unfold_with_fields_next(n1, n2, i, Node_unfold_with(n1.fields[i], n2.fields[i]))

\* the two Records (u1, u2: each side after its unfold, if it was a Leaf)
unfold_with_records(self, othr, u1, u2) ==
    IF u1.fatal # "none" THEN PairFatal(self, othr, u1.fatal)
    ELSE IF u2.fatal # "none" THEN PairFatal(self, othr, u2.fatal)
    ELSE IF debug_assertions /\ u1.node.variant # u2.node.variant
         THEN PairFatal(u1.node, u2.node, "debug_assert")
    ELSE IF debug_assertions /\ Len(u1.node.fields) # Len(u2.node.fields)
         THEN PairFatal(u1.node, u2.node, "debug_assert")
    ELSE unfold_with_fields(u1.node, u2.node, 1)

\* Node_unfold_with unfolding a Leaf of an ADT also when the other node is a Leaf
Node_unfold_with_eager(self, othr) ==
    IF self.tag = "Ty" /\ othr.tag = "Ty"
    THEN IF Ty_unfold(self.ty, 0).some
         THEN PairOk(Node_unfold(self, 0).node, othr)
         ELSE PairOk(self, othr)
    ELSE unfold_with_records(
           self, othr,
           IF self.tag = "Ty" THEN Node_unfold(self, othr.variant) ELSE NodeOk(self),
           IF othr.tag = "Ty" THEN Node_unfold(othr, self.variant) ELSE NodeOk(othr))

Node_unfold_with(self, othr) ==
    IF self.tag = "Ty" /\ othr.tag = "Ty" THEN PairOk(self, othr)
    ELSE unfold_with_records(
           self, othr,
           IF self.tag = "Ty" THEN Node_unfold(self, othr.variant) ELSE NodeOk(self),
           IF othr.tag = "Ty" THEN Node_unfold(othr, self.variant) ELSE NodeOk(othr))

\* Node::fold_unfold_with: self as the call leaves it (other is only read)
RECURSIVE Node_fold_unfold_with(_, _)
RECURSIVE fold_unfold_with_fields(_, _, _)

fold_unfold_with_fields_next(n1, n2, i, r) ==
    IF r.fatal # "none" THEN NodeFatal(n1, r.fatal)
    ELSE fold_unfold_with_fields([n1 EXCEPT !.fields[i] = r.node], n2, i + 1)

fold_unfold_with_fields(n1, n2, i) ==
    IF i > MinLen(n1.fields, n2.fields) THEN NodeOk(n1)
    ELSE fold_unfold_with_fields_next(
           n1, n2, i, Node_fold_unfold_with(n1.fields[i], n2.fields[i]))

fold_unfold_with_records(othr, u1) ==
    IF u1.fatal # "none" THEN u1
    ELSE IF debug_assertions /\ u1.node.variant # othr.variant
         THEN NodeFatal(u1.node, "debug_assert")
    ELSE IF debug_assertions /\ Len(u1.node.fields) # Len(othr.fields)
         THEN NodeFatal(u1.node, "debug_assert")
    ELSE fold_unfold_with_fields(u1.node, othr, 1)

Node_fold_unfold_with(self, othr) ==
    IF self.tag = "Ty" /\ othr.tag = "Ty" THEN NodeOk(self)
    ELSE IF self.tag = "Adt" /\ othr.tag = "Ty" THEN Node_fold(self)
    ELSE fold_unfold_with_records(
           othr, IF self.tag = "Ty" THEN Node_unfold(self, othr.variant) ELSE NodeOk(self))

-----------------------------------------------------------------------------
(* PathsTree: the map from locations to root nodes                         *)

EmptyMap == [l \in {} |-> NodeTy(Uninit)]

\* PathsTree::get: Some(ty), None, or the panic of indexing past the fields
RECURSIVE get_walk(_, _)
\* get_walk returning the type of a Leaf it meets before the end of the path
get_walk_through(node, proj) ==
    IF node.tag = "Ty" THEN [some |-> TRUE, ty |-> node.ty, fatal |-> "none"]
    ELSE IF proj = <<>> THEN [some |-> FALSE, fatal |-> "none"]
    ELSE IF Head(proj) >= Len(node.fields) THEN [some |-> FALSE, fatal |-> "index"]
    ELSE get_walk(node.fields[Head(proj) + 1], Tail(proj))

get_walk(node, proj) ==
    IF proj = <<>>
    THEN IF node.tag = "Ty" THEN [some |-> TRUE, ty |-> node.ty, fatal |-> "none"]
         ELSE [some |-> FALSE, fatal |-> "none"]
    ELSE IF node.tag = "Ty" THEN [some |-> FALSE, fatal |-> "none"]
    ELSE IF Head(proj) >= Len(node.fields) THEN [some |-> FALSE, fatal |-> "index"]
    ELSE get_walk(node.fields[Head(proj) + 1], Tail(proj))

get(map, path) ==
    IF path.loc \notin DOMAIN map THEN [some |-> FALSE, fatal |-> "none"]
    ELSE get_walk(map[path.loc], path.proj)

\* PathsTree::get_mut followed by a write of ty through the returned reference
get_mut_write(map, path, ty) ==
    IF get(map, path).some
    THEN [map EXCEPT ![path.loc] = ReplaceAt(@, path.proj, NodeTy(ty))]
    ELSE map

\* the map with the node at position pos of location loc replaced
SetNode(map, loc, pos, n) == [map EXCEPT ![loc] = ReplaceAt(@, pos, n)]

\* insert keeping the node of a location the map already has (entry().or_insert)
insert_absent(map, loc, ty) ==
    [l \in (DOMAIN map) \cup {loc} |-> IF l \in DOMAIN map THEN map[l] ELSE NodeTy(ty)]

\* PathsTree::insert and PathsTree::remove
insert(map, loc, ty) ==
    [l \in (DOMAIN map) \cup {loc} |-> IF l = loc THEN NodeTy(ty) ELSE map[l]]

remove(map, loc) == [l \in (DOMAIN map) \ {loc} |-> map[l]]

\* PathsTree::unfold_with: both maps as the call leaves them
RECURSIVE unfold_with_locs(_, _, _)

unfold_with_locs_next(m1, m2, todo, loc, r) ==
    IF r.fatal # "none" THEN [m1 |-> m1, m2 |-> m2, fatal |-> r.fatal]
    ELSE unfold_with_locs([m1 EXCEPT ![loc] = r.n1],
                          [m2 EXCEPT ![loc] = r.n2], todo \ {loc})

unfold_with_loc(m1, m2, todo, loc) ==
    unfold_with_locs_next(m1, m2, todo, loc, Node_unfold_with(m1[loc], m2[loc]))

unfold_with_locs(m1, m2, todo) ==
    IF todo = {} THEN [m1 |-> m1, m2 |-> m2, fatal |-> "none"]
    ELSE unfold_with_loc(m1, m2, todo, CHOOSE l \in todo : TRUE)

\* The result r of a reconciliation with self's map cut down to the locations in ks
KeepLocs(r, ks) == [r EXCEPT !.m1 = [l \in (DOMAIN r.m1) \cap ks |-> r.m1[l]]]

\* PathsTree_unfold_with rebuilding self's map from the locations it paired up
PathsTree_unfold_with_paired(m1, m2) ==
    KeepLocs(unfold_with_locs(m1, m2, (DOMAIN m1) \cap (DOMAIN m2)), DOMAIN m2)

PathsTree_unfold_with(m1, m2) ==
    unfold_with_locs(m1, m2, (DOMAIN m1) \cap (DOMAIN m2))

\* PathsTree::fold_unfold_with: self's map as the call leaves it
RECURSIVE fold_unfold_with_locs(_, _, _)

fold_unfold_with_locs_next(m1, m2, todo, loc, r) ==
    IF r.fatal # "none" THEN [m1 |-> m1, fatal |-> r.fatal]
    ELSE fold_unfold_with_locs([m1 EXCEPT ![loc] = r.node], m2, todo \ {loc})

fold_unfold_with_loc(m1, m2, todo, loc) ==
    fold_unfold_with_locs_next(m1, m2, todo, loc, Node_fold_unfold_with(m1[loc], m2[loc]))

fold_unfold_with_locs(m1, m2, todo) ==
    IF todo = {} THEN [m1 |-> m1, fatal |-> "none"]
    ELSE fold_unfold_with_loc(m1, m2, todo, CHOOSE l \in todo : TRUE)

PathsTree_fold_unfold_with(m1, m2) ==
    fold_unfold_with_locs(m1, m2, (DOMAIN m1) \cap (DOMAIN m2))

-----------------------------------------------------------------------------
(* Place resolution.  A place is a local and a projection, a sequence of   *)
(* place elements.  A resolution returns the map as it leaves it, the      *)
(* LookupResult handed to the continuation, the panic it met (if any) and  *)
(* the dereferences it performed, in order.                                *)

Field(f) == [e |-> "Field", n |-> f]
Downcast(v) == [e |-> "Downcast", n |-> v]
Deref == [e |-> "Deref"]

\* LookupResult::Ptr(path, handle) and LookupResult::Ref(mode, ty); the handle
\* is the Leaf at path in the returned map
LookupPtr(p) == [tag |-> "Ptr", path |-> p]
LookupRef(m, t) == [tag |-> "Ref", mode |-> m, ty |-> t]

DerefRef(m) == [d |-> "Ref", mode |-> m]
DerefPtr(p) == [d |-> "Ptr", path |-> p]

LookupOk(map, res) == [map |-> map, res |-> res, fatal |-> "none", derefs |-> <<>>]
LookupFatal(map, k) == [map |-> map, res |-> [tag |-> "None"], fatal |-> k, derefs |-> <<>>]
AfterDeref(d, r) == [r EXCEPT !.derefs = <<d>> \o @]

\* FieldOrDowncast::from_place_elem is Some
IsFieldOrDowncast(elem) == elem.e \in {"Field", "Downcast"}

\* IterExt::map_take_while: the longest prefix of field and downcast elements;
\* the first other element is left in the iterator
RECURSIVE map_take_while(_)
map_take_while(place_proj) ==
    IF place_proj # <<>> /\ IsFieldOrDowncast(Head(place_proj))
    THEN <<Head(place_proj)>> \o map_take_while(Tail(place_proj))
    ELSE <<>>

\* The for loop of lookup_place_iter: the root node and the position reached
RECURSIVE walk_elems(_, _, _)

walk_elems_next(root, pos, pos2, elems, r) ==
    IF r.fatal # "none" THEN [root |-> root, pos |-> pos, fatal |-> r.fatal]
    ELSE walk_elems(ReplaceAt(root, pos, r.node), pos2, Tail(elems))

walk_elems(root, pos, elems) ==
    IF elems = <<>> THEN [root |-> root, pos |-> pos, fatal |-> "none"]
    ELSE IF Head(elems).e = "Field"
         THEN walk_elems_next(root, pos, Append(pos, Head(elems).n), elems,
                              Node_proj(NodeAt(root, pos), Head(elems).n))
         ELSE walk_elems_next(root, pos, pos, elems,
                              Node_unfold(NodeAt(root, pos), Head(elems).n))

RECURSIVE lookup_place_iter(_, _, _)
RECURSIVE place_proj_ty(_, _, _, _)

\* lookup_deref following a pointer whose pointee is a pointer Leaf one hop
\* further, for the one dereference element it consumed
lookup_deref_auto(map, ty, rest) ==
    CASE ty.kind = "Ptr" ->
           IF get(map, ty.path).some /\ get(map, ty.path).ty.kind = "Ptr"
           THEN AfterDeref(DerefPtr(ty.path),
                           AfterDeref(DerefPtr(get(map, ty.path).ty.path),
                                      lookup_place_iter(map, get(map, ty.path).ty.path,
                                                        rest)))
           ELSE AfterDeref(DerefPtr(ty.path), lookup_place_iter(map, ty.path, rest))
      [] ty.kind = "Ref" ->
           AfterDeref(DerefRef(ty.mode), place_proj_ty(map, ty.mode, ty.ty, rest))
      [] OTHER -> LookupFatal(map, "unreachable")

\* the Some(PlaceElem::Deref) arm: ty is the type of the folded node
lookup_deref(map, ty, rest) ==
    CASE ty.kind = "Ptr" ->
           AfterDeref(DerefPtr(ty.path), lookup_place_iter(map, ty.path, rest))
      [] ty.kind = "Ref" ->
           AfterDeref(DerefRef(ty.mode), place_proj_ty(map, ty.mode, ty.ty, rest))
      [] OTHER -> LookupFatal(map, "unreachable")

\* lookup_folded handing over the handle of the node as the walk left it, not folded
lookup_folded_nofold(map, loc, w, rest, r) ==
    IF r.fatal # "none" THEN LookupFatal(map, r.fatal)
    ELSE IF rest = <<>>
         THEN LookupOk([map EXCEPT ![loc] = w.root], LookupPtr(Path(loc, w.pos)))
         ELSE lookup_deref(SetNode([map EXCEPT ![loc] = w.root], loc, w.pos, r.node),
                           r.node.ty, Tail(rest))

\* after node.fold(rcx) returned r at the position w.pos of location loc
lookup_folded(map, loc, w, rest, r) ==
    IF r.fatal # "none" THEN LookupFatal(map, r.fatal)
    ELSE IF rest = <<>>
         THEN LookupOk(SetNode([map EXCEPT ![loc] = w.root], loc, w.pos, r.node),
                       LookupPtr(Path(loc, w.pos)))
         ELSE lookup_deref(SetNode([map EXCEPT ![loc] = w.root], loc, w.pos, r.node),
                           r.node.ty, Tail(rest))

\* lookup_walked folding the root of the location, not the node the walk reached
lookup_walked_root(map, loc, rest, w) ==
    IF w.fatal # "none" THEN LookupFatal(map, w.fatal)
    ELSE IF rest # <<>> /\ Head(rest).e # "Deref" THEN LookupFatal(map, "unreachable")
    ELSE lookup_folded(map, loc, [w EXCEPT !.pos = <<>>], rest, Node_fold(w.root))

\* the match on place_proj.next(), w being what the for loop reached
lookup_walked(map, loc, rest, w) ==
    IF w.fatal # "none" THEN LookupFatal(map, w.fatal)
    ELSE IF rest # <<>> /\ Head(rest).e # "Deref" THEN LookupFatal(map, "unreachable")
    ELSE lookup_folded(map, loc, w, rest, Node_fold(NodeAt(w.root, w.pos)))

\* lookup_round walking from the root of the location, the fields of path forgotten
lookup_round_root(map, path, place_proj, taken) ==
    lookup_walked(map, path.loc,
                  SubSeq(place_proj, Len(taken) + 1, Len(place_proj)),
                  walk_elems(map[path.loc], <<>>, taken))

\* one round of the loop: the elements walked are the fields of path, then taken
lookup_round(map, path, place_proj, taken) ==
    lookup_walked(map, path.loc,
                  SubSeq(place_proj, Len(taken) + 1, Len(place_proj)),
                  walk_elems(map[path.loc], <<>>,
                             [i \in DOMAIN path.proj |-> Field(path.proj[i])] \o taken))

lookup_place_iter(map, path, place_proj) ==
    IF path.loc \notin DOMAIN map THEN LookupFatal(map, "unwrap")
    ELSE lookup_round(map, path, place_proj, map_take_while(place_proj))

\* place_proj_closure passing the result on as it is
place_proj_closure_handle(mode, r) == r

\* the closure place_proj_ty passes on: a handle becomes a copy under mode
place_proj_closure(mode, r) ==
    IF r.fatal # "none" THEN r
    ELSE [r EXCEPT !.res = IF r.res.tag = "Ptr"
                            THEN LookupRef(mode, get(r.map, r.res.path).ty)
                            ELSE LookupRef(RefKind_min(mode, r.res.mode), r.res.ty)]

\* the (PlaceElem::Field(f), _) arm, u being ty.unfold(VariantIdx 0)
place_proj_field(map, mode, u, f, rest) ==
    IF ~u.some THEN LookupFatal(map, "unwrap")
    ELSE IF f >= Len(u.fields) THEN LookupFatal(map, "index")
    ELSE place_proj_ty(map, mode, u.fields[f + 1], rest)

\* place_proj_ty taking the mode of the reference it dereferences, not the weaker one
place_proj_ty_last(map, mode, ty, proj) ==
    IF proj = <<>> THEN LookupOk(map, LookupRef(mode, ty))
    ELSE CASE Head(proj).e = "Deref" /\ ty.kind = "Ref" ->
                AfterDeref(DerefRef(ty.mode),
                           place_proj_ty(map, ty.mode, ty.ty, Tail(proj)))
           [] Head(proj).e = "Deref" /\ ty.kind = "Ptr" ->
                AfterDeref(DerefPtr(ty.path),
                           place_proj_closure(mode,
                                              lookup_place_iter(map, ty.path, Tail(proj))))
           [] Head(proj).e = "Field" ->
                place_proj_field(map, mode, Ty_unfold(ty, 0), Head(proj).n, Tail(proj))
           [] OTHER -> LookupFatal(map, "unreachable")

place_proj_ty(map, mode, ty, proj) ==
    IF proj = <<>> THEN LookupOk(map, LookupRef(mode, ty))
    ELSE CASE Head(proj).e = "Deref" /\ ty.kind = "Ref" ->
                AfterDeref(DerefRef(ty.mode),
                           place_proj_ty(map, RefKind_min(mode, ty.mode), ty.ty, Tail(proj)))
           [] Head(proj).e = "Deref" /\ ty.kind = "Ptr" ->
                AfterDeref(DerefPtr(ty.path),
                           place_proj_closure(mode,
                                              lookup_place_iter(map, ty.path, Tail(proj))))
           [] Head(proj).e = "Field" ->
                place_proj_field(map, mode, Ty_unfold(ty, 0), Head(proj).n, Tail(proj))
           [] OTHER -> LookupFatal(map, "unreachable")

\* PathsTree::lookup_place
lookup_place(map, place) ==
    lookup_place_iter(map, Path(place.local, <<>>), place.projection)

-----------------------------------------------------------------------------
(* PathsIter: the iterator state is the stack of enumerations (the fields  *)
(* of a Record and the index of the next one), the location and the        *)
(* projection walked so far; or, for a Leaf root, the item not yet taken.  *)

PathsIter_new(loc, root) ==
    IF root.tag = "Ty"
    THEN [kind |-> "Ty", item |-> <<[path |-> Path(loc, <<>>), ty |-> root.ty]>>]
    ELSE [kind |-> "Adt", loc |-> loc, projection |-> <<>>,
          stack |-> <<[fields |-> root.fields, i |-> 0]>>]

VecPop(v) == IF v = <<>> THEN v ELSE SubSeq(v, 1, Len(v) - 1)

\* PathsIter::next: the item yielded (a sequence of length 0 or 1) and the iterator after it
RECURSIVE PathsIter_next(_)
\* PathsIter_next not pushing the field of a Record it descends into
PathsIter_next_nopush(it) ==
    IF it.kind = "Ty" THEN [item |-> it.item, it |-> [it EXCEPT !.item = <<>>]]
    ELSE IF it.stack = <<>> THEN [item |-> <<>>, it |-> it]
    ELSE LET d == Len(it.stack)
             top == it.stack[d]
         IN IF top.i < Len(top.fields)
            THEN LET node == top.fields[top.i + 1]
                     adv == [it EXCEPT !.stack[d].i = top.i + 1]
                 IN IF node.tag = "Adt"
                    THEN PathsIter_next(
                           [adv EXCEPT !.stack = Append(@, [fields |-> node.fields,
                                                            i |-> 0])])
                    ELSE [item |-> <<[path |-> Path(it.loc, Append(it.projection, top.i)),
                                      ty |-> node.ty]>>,
                          it |-> adv]
            ELSE PathsIter_next([it EXCEPT !.stack = VecPop(@)])

PathsIter_next(it) ==
    IF it.kind = "Ty" THEN [item |-> it.item, it |-> [it EXCEPT !.item = <<>>]]
    ELSE IF it.stack = <<>> THEN [item |-> <<>>, it |-> it]
    ELSE LET d == Len(it.stack)
             top == it.stack[d]
         IN IF top.i < Len(top.fields)
            THEN LET node == top.fields[top.i + 1]
                     adv == [it EXCEPT !.stack[d].i = top.i + 1]
                 IN IF node.tag = "Adt"
                    THEN PathsIter_next(
                           [adv EXCEPT !.projection = Append(@, top.i),
                                       !.stack = Append(@, [fields |-> node.fields,
                                                            i |-> 0])])
                    ELSE [item |-> <<[path |-> Path(it.loc, Append(it.projection, top.i)),
                                      ty |-> node.ty]>>,
                          it |-> adv]
            ELSE PathsIter_next([it EXCEPT !.projection = VecPop(@),
                                           !.stack = VecPop(@)])

\* All the items an iterator yields, in order
RECURSIVE PathsIter_collect(_)

PathsIter_collect_next(r) ==
    IF r.item = <<>> THEN <<>> ELSE r.item \o PathsIter_collect(r.it)

PathsIter_collect(it) == PathsIter_collect_next(PathsIter_next(it))

\* PathsTree::iter: the flat_map over the map's entries (in the map's order)
RECURSIVE iter_locs(_, _)

iter_loc(map, todo, loc) ==
    PathsIter_collect(PathsIter_new(loc, map[loc])) \o iter_locs(map, todo \ {loc})

iter_locs(map, todo) ==
    IF todo = {} THEN <<>> ELSE iter_loc(map, todo, CHOOSE l \in todo : TRUE)

iter(map) == iter_locs(map, DOMAIN map)

\* PathsIterMut::new
PathsIterMut_new(loc, root) ==
    IF root.tag = "Ty"
    THEN [kind |-> "Ty", item |-> <<[path |-> Path(loc, <<>>), ty |-> root.ty]>>]
    ELSE [kind |-> "Adt", loc |-> loc, projection |-> <<>>,
          stack |-> <<[fields |-> root.fields, i |-> 0]>>]

\* PathsIterMut::next: the item yielded (a sequence of length 0 or 1) and the
\* iterator after it
RECURSIVE PathsIterMut_next(_)
PathsIterMut_next(it) ==
    IF it.kind = "Ty" THEN [item |-> it.item, it |-> [it EXCEPT !.item = <<>>]]
    ELSE IF it.stack = <<>> THEN [item |-> <<>>, it |-> it]
    ELSE LET d == Len(it.stack)
             top == it.stack[d]
         IN IF top.i < Len(top.fields)
            THEN LET node == top.fields[top.i + 1]
                     adv == [it EXCEPT !.stack[d].i = top.i + 1]
                 IN IF node.tag = "Adt"
                    THEN PathsIterMut_next(
                           [adv EXCEPT !.projection = Append(@, top.i),
                                       !.stack = Append(@, [fields |-> node.fields,
                                                            i |-> 0])])
                    ELSE [item |-> <<[path |-> Path(it.loc, Append(it.projection, top.i)),
                                      ty |-> node.ty]>>,
                          it |-> adv]
            ELSE PathsIterMut_next([it EXCEPT !.projection = VecPop(@),
                                              !.stack = VecPop(@)])

RECURSIVE PathsIterMut_collect(_)

PathsIterMut_collect_next(r) ==
    IF r.item = <<>> THEN <<>> ELSE r.item \o PathsIterMut_collect(r.it)

PathsIterMut_collect(it) == PathsIterMut_collect_next(PathsIterMut_next(it))

\* PathsTree::iter_mut: the flat_map over the map's entries
RECURSIVE iter_mut_locs(_, _)

iter_mut_loc(map, todo, loc) ==
    PathsIterMut_collect(PathsIterMut_new(loc, map[loc])) \o iter_mut_locs(map, todo \ {loc})

iter_mut_locs(map, todo) ==
    IF todo = {} THEN <<>> ELSE iter_mut_loc(map, todo, CHOOSE l \in todo : TRUE)

iter_mut(map) == iter_mut_locs(map, DOMAIN map)

\* PathsTree::paths
PathsOf(items) == [i \in DOMAIN items |-> items[i].path]
paths(map) == PathsOf(iter(map))

-----------------------------------------------------------------------------
(* Inputs                                                                  *)

PairTy(a, b) == Indexed(AdtBty("Pair", <<>>), <<Const(a), Const(b)>>)
OuterTy(a, b) == Indexed(AdtBty("Outer", <<>>), <<Const(a), Const(b)>>)
AdtTy1(d, a) == Indexed(AdtBty(d, <<>>), <<Const(a)>>)
WrapTy(t, a) == Indexed(AdtBty("Wrap", <<t>>), <<Const(a)>>)

NoWrite == [kind |-> "NoWrite"]

\* All positions of a root node, Leaf or Record
RECURSIVE AllPos(_)
AllPos(root) ==
    IF root.tag = "Ty" THEN {<<>>}
    ELSE {<<>>} \cup UNION { { <<i - 1>> \o q : q \in AllPos(root.fields[i]) }
                             : i \in DOMAIN root.fields }

PosOf(map) == UNION { { Path(l, q) : q \in AllPos(map[l]) } : l \in DOMAIN map }

-----------------------------------------------------------------------------
(* Operations.  Each appends its record to the log; a panic ends the run.  *)

Running == fatal = "none"

\* no check_invariants is running
NoCheck == [pc |-> "idle"]

Entry(op, args) == [op |-> op, pre |-> heap, pre_other |-> other] @@ args

Done(h, o, entry) ==
    /\ heap' = h
    /\ other' = o
    /\ fatal' = "none"
    /\ log' = Append(log, entry)
    /\ UNCHANGED <<debug_assertions, chk>>

Panic(k, entry) ==
    /\ fatal' = k
    /\ log' = Append(log, entry)
    /\ UNCHANGED <<heap, other, debug_assertions, chk>>

Insert(loc, ty) ==
    /\ Running
    /\ Done(insert(heap, loc, ty), other, Entry("insert", [loc |-> loc, ty |-> ty]))

Remove(loc) ==
    /\ Running
    /\ Done(remove(heap, loc), other, Entry("remove", [loc |-> loc]))

GetMutDone(path, ty, g) ==
    IF g.fatal # "none"
    THEN Panic(g.fatal, Entry("get_mut", [path |-> path, ty |-> ty, some |-> FALSE]))
    ELSE Done(get_mut_write(heap, path, ty), other,
              Entry("get_mut", [path |-> path, ty |-> ty, some |-> g.some]))

\* *heap.get_mut(path) = ty, when get_mut returns Some
GetMutWrite(path, ty) ==
    /\ Running
    /\ GetMutDone(path, ty, get(heap, path))

NodeDone(path, e, r) ==
    IF r.fatal # "none" THEN Panic(r.fatal, e)
    ELSE Done(SetNode(heap, path.loc, path.proj, r.node), other, e)

\* Node::unfold at the node at path
Unfold(path, v) ==
    /\ Running
    /\ NodeDone(path, Entry("unfold", [path |-> path, variant |-> v]),
                Node_unfold(NodeAt(heap[path.loc], path.proj), v))

\* Node::fold at the node at path
Fold(path) ==
    /\ Running
    /\ NodeDone(path, Entry("fold", [path |-> path]),
                Node_fold(NodeAt(heap[path.loc], path.proj)))

GetMutOtherDone(path, ty, g) ==
    IF g.fatal # "none"
    THEN Panic(g.fatal, Entry("get_mut_other", [path |-> path, ty |-> ty, some |-> FALSE]))
    ELSE Done(heap, get_mut_write(other, path, ty),
              Entry("get_mut_other", [path |-> path, ty |-> ty, some |-> g.some]))

\* *other.get_mut(path) = ty: the same write, in the tree of the other branch
GetMutWriteOther(path, ty) ==
    /\ Running
    /\ GetMutOtherDone(path, ty, get(other, path))

NodeOtherDone(path, e, r) ==
    IF r.fatal # "none" THEN Panic(r.fatal, e)
    ELSE Done(heap, SetNode(other, path.loc, path.proj, r.node), e)

\* Node::unfold at the node at path of the tree of the other branch
UnfoldOther(path, v) ==
    /\ Running
    /\ NodeOtherDone(path, Entry("unfold_other", [path |-> path, variant |-> v]),
                     Node_unfold(NodeAt(other[path.loc], path.proj), v))

\* The continuation: it reads the type of the result and, handed a
\* LookupResult::Ptr, may write w through the handle
LookupDone(place, w, r) ==
    IF r.fatal # "none"
    THEN Panic(r.fatal, Entry("lookup_place",
                              [place |-> place, res |-> r.res, derefs |-> r.derefs,
                               write |-> NoWrite]))
    ELSE IF r.res.tag = "Ptr" /\ w # NoWrite
    THEN Done(get_mut_write(r.map, r.res.path, w), other,
              Entry("lookup_place",
                    [place |-> place, res |-> r.res, derefs |-> r.derefs, write |-> w,
                     map |-> r.map]))
    ELSE Done(r.map, other,
              Entry("lookup_place",
                    [place |-> place, res |-> r.res, derefs |-> r.derefs,
                     write |-> NoWrite, map |-> r.map]))

\* lookup_place with that continuation
LookupPlace(place, w) ==
    /\ Running
    /\ LookupDone(place, w, lookup_place(heap, place))

\* other = heap.clone()
Clone ==
    /\ Running
    /\ Done(heap, heap, Entry("clone", <<>>))

UnfoldWithDone(r) ==
    IF r.fatal # "none" THEN Panic(r.fatal, Entry("unfold_with", <<>>))
    ELSE Done(r.m1, r.m2, Entry("unfold_with", <<>>))

\* heap.unfold_with(&mut other)
UnfoldWith ==
    /\ Running
    /\ UnfoldWithDone(PathsTree_unfold_with(heap, other))

FoldUnfoldWithDone(r) ==
    IF r.fatal # "none" THEN Panic(r.fatal, Entry("fold_unfold_with", <<>>))
    ELSE Done(r.m1, other, Entry("fold_unfold_with", <<>>))

\* heap.fold_unfold_with(rcx, &other)
FoldUnfoldWith ==
    /\ Running
    /\ FoldUnfoldWithDone(PathsTree_fold_unfold_with(heap, other))

-----------------------------------------------------------------------------
(* The fold / unfold specification: one location holding a Leaf of an ADT, *)
(* then unfolds, writes through get_mut and folds.                         *)

FoldLeaves ==
    { PairTy(0, 1), PairTy(1, 1), OuterTy(0, 1), AdtTy1("Opt", 1), AdtTy1("ShrBox", 1),
      AdtTy1("MutBox", 1), AdtTy1("MutPair", 1), AdtTy1("Phantom", 1), AdtTy1("PtrBox", 1),
      WrapTy(I32(Const(1)), 0) }

FoldWriteTys ==
    { I32(Const(2)), Uninit, Ptr(Path("y", <<>>)), Ref("Shr", I32(Const(2))),
      Ref("Mut", I32(Const(2))) }

Variants == {0, 1}

InitFold ==
    /\ heap \in { "x" :> NodeTy(t) : t \in FoldLeaves }
    /\ other = EmptyMap
    /\ log = <<>>
    /\ fatal = "none"
    /\ debug_assertions \in BOOLEAN
    /\ chk = NoCheck

FoldRunning == Len(log) < MaxFoldOps

NextFold ==
    \/ \E p \in PosOf(heap), v \in Variants : FoldRunning /\ Unfold(p, v)
    \/ \E p \in PosOf(heap), ty \in FoldWriteTys : FoldRunning /\ GetMutWrite(p, ty)
    \/ \E p \in PosOf(heap) : FoldRunning /\ Fold(p)

SpecFold == InitFold /\ [][NextFold]_vars

-----------------------------------------------------------------------------
(* The resolution specification: a heap of three Leaves holding pointers,  *)
(* references and ADT values, and one lookup_place of a place of up to     *)
(* MaxPlaceLen elements, whose continuation may write through the handle.  *)

LocX == Path("x", <<>>)
LocY == Path("y", <<>>)
LocZ == Path("z", <<>>)

LookupTysX ==
    { Ptr(LocY), Ref("Shr", Ref("Mut", Ptr(LocY))), Ref("Mut", Ref("Mut", Ptr(LocY))),
      AdtTy1("Opt", 1) }

LookupTysY ==
    { Ptr(Path("z", <<0>>)), Ptr(LocX), Ref("Mut", AdtTy1("ShrBox", 1)),
      Ref("Shr", Ptr(LocZ)) }

LookupTysZ ==
    { OuterTy(3, 4), Ref("Mut", PairTy(1, 2)), Ptr(LocZ), Ref("Mut", AdtTy1("Opt", 1)) }

PlaceElems == {Field(0), Field(1), Deref, Downcast(1)}

Projections(n) == UNION { [1 .. k -> PlaceElems] : k \in 0 .. n }

Place(local, projection) == [local |-> local, projection |-> projection]

HandleWrites == {NoWrite, I32(Const(9))}

InitLookup ==
    /\ heap \in { ("x" :> NodeTy(tx)) @@ ("y" :> NodeTy(ty)) @@ ("z" :> NodeTy(tz)) :
                    tx \in LookupTysX, ty \in LookupTysY, tz \in LookupTysZ }
    /\ other = EmptyMap
    /\ log = <<>>
    /\ fatal = "none"
    /\ debug_assertions \in BOOLEAN
    /\ chk = NoCheck

NextLookup ==
    /\ log = <<>>
    /\ \E local \in Locs, projection \in Projections(MaxPlaceLen), w \in HandleWrites :
         LookupPlace(Place(local, projection), w)

SpecLookup == InitLookup /\ [][NextLookup]_vars

-----------------------------------------------------------------------------
(* Properties of fold and unfold                                           *)

N == Len(log)
Last == log[N]

\* The node at a path of a map
NodeAtPath(map, path) == NodeAt(map[path.loc], path.proj)

\* Variant v of ADT d declares one index per field: field i is indexed by index i alone
OneIndexPerField(d, v) ==
    LET sig == AdtDef_variant_sig(d, v)
    IN /\ Len(sig) = AdtDef_sorts(d)
       /\ \A i \in DOMAIN sig : sig[i].kind = "Indexed" /\ sig[i].idxs = <<BVar(i - 1)>>

\* The last three operations are: unfold of a Leaf at path p under v, a write of
\* ty through get_mut at field f of p, and fold at p, none of which panicked
StrongUpdateAt(p, v, f, ty) ==
    /\ N >= 3 /\ fatal = "none"
    /\ log[N - 2].op = "unfold" /\ log[N - 2].path = p /\ log[N - 2].variant = v
    /\ NodeAtPath(log[N - 2].pre, p).tag = "Ty"
    /\ log[N - 1].op = "get_mut" /\ log[N - 1].path = Path(p.loc, Append(p.proj, f))
    /\ log[N - 1].some /\ log[N - 1].ty = ty
    /\ Last.op = "fold" /\ Last.path = p

\* C1: strong update is reflected by fold.  When a Leaf of an ADT whose variant v
\* has one index per field is unfolded under v, one field is overwritten with the
\* same base type at a new index e, and the location is folded, the result is a
\* Leaf of that ADT whose index at the overwritten field is e and whose other
\* indices are the ones the sibling fields had before the overwrite.
C1_StrongUpdateReflected ==
    \A p \in PosOf(heap), v \in Variants, f \in 0 .. 1, ty \in FoldWriteTys :
      LET orig == NodeAtPath(log[N - 2].pre, p)
          before == NodeAtPath(log[N - 1].pre, p)
          now == NodeAtPath(heap, p)
      IN ( /\ StrongUpdateAt(p, v, f, ty)
           /\ OneIndexPerField(orig.ty.bty.def, v)
           /\ ty.kind = "Indexed" /\ Len(ty.idxs) = 1
           /\ ty.bty = before.fields[f + 1].ty.bty )
         => /\ now.tag = "Ty"
            /\ now.ty.kind = "Indexed"
            /\ now.ty.bty.b = "Adt" /\ now.ty.bty.def = orig.ty.bty.def
            /\ Len(now.ty.idxs) = Len(before.fields)
            /\ \A j \in DOMAIN before.fields :
                 now.ty.idxs[j] = IF j = f + 1 THEN ty.idxs[1]
                                  ELSE before.fields[j].ty.idxs[1]

\* A strong update of a two-field value happened and changed the index of one field
C1_Witness ==
    \E p \in PosOf(heap), v \in Variants, f \in 0 .. 1, ty \in FoldWriteTys :
      /\ StrongUpdateAt(p, v, f, ty)
      /\ OneIndexPerField(NodeAtPath(log[N - 2].pre, p).ty.bty.def, v)
      /\ ty.kind = "Indexed" /\ Len(ty.idxs) = 1
      /\ Len(NodeAtPath(log[N - 1].pre, p).fields) = 2
      /\ NodeAtPath(heap, p).tag = "Ty"
      /\ NodeAtPath(heap, p).ty.idxs # NodeAtPath(log[N - 2].pre, p).ty.idxs

\* The last two operations are an unfold of a Leaf at p and a fold at p, and
\* neither panicked
RoundTripAt(p) ==
    /\ N >= 2 /\ fatal = "none"
    /\ log[N - 1].op = "unfold" /\ log[N - 1].path = p
    /\ NodeAtPath(log[N - 1].pre, p).tag = "Ty"
    /\ Last.op = "fold" /\ Last.path = p

\* C2: fold / unfold round trip.  Unfolding a Leaf of an ADT under a variant and
\* folding it at once, no field changed, yields a Leaf whose type equals the
\* original type: same ADT, same generic arguments, same indices in order.
C2_RoundTrip ==
    \A p \in PosOf(heap) :
      RoundTripAt(p) => NodeAtPath(heap, p) = NodeAtPath(log[N - 1].pre, p)

\* C2, the part the code keeps: the round trip yields a Leaf of the same ADT with
\* the same indices in the same order
C2_RoundTripIndices ==
    \A p \in PosOf(heap) :
      RoundTripAt(p) =>
        LET now == NodeAtPath(heap, p)
            orig == NodeAtPath(log[N - 1].pre, p)
        IN /\ now.tag = "Ty"
           /\ now.ty.kind = "Indexed"
           /\ now.ty.bty.b = "Adt" /\ now.ty.bty.def = orig.ty.bty.def
           /\ now.ty.idxs = orig.ty.idxs

\* The indices unification leaves unassigned when a Record of leaves is folded
Unassigned(node) ==
    LET tys == [i \in DOMAIN node.fields |-> node.fields[i].ty]
        r == infer_fields(NoParams, tys, AdtDef_variant_sig(node.adt, node.variant), 1)
    IN { idx \in 0 .. (AdtDef_sorts(node.adt) - 1) : idx \notin DOMAIN r.params }

AllLeaves(node) == \A i \in DOMAIN node.fields : node.fields[i].tag = "Ty"

\* C7: an unresolved index is fatal.  Folding a Record whose variant declares an
\* index that unification assigns no expression panics, and a fold that returns
\* leaves a Leaf with as many indices as the ADT declares.
C7_UnresolvedIndexFatal ==
    (N >= 1 /\ Last.op = "fold" /\ NodeAtPath(Last.pre, Last.path).tag = "Adt") =>
      LET rec == NodeAtPath(Last.pre, Last.path)
      IN /\ (AllLeaves(rec) /\ Unassigned(rec) # {}) => fatal # "none"
         /\ fatal = "none" =>
              /\ NodeAtPath(heap, Last.path).tag = "Ty"
              /\ Len(NodeAtPath(heap, Last.path).ty.idxs) = AdtDef_sorts(rec.adt)

\* A fold of a Record with an unassigned index panicked
C7_Witness ==
    /\ N >= 1 /\ Last.op = "fold"
    /\ NodeAtPath(Last.pre, Last.path).tag = "Adt"
    /\ AllLeaves(NodeAtPath(Last.pre, Last.path))
    /\ Unassigned(NodeAtPath(Last.pre, Last.path)) # {}
    /\ fatal = "unwrap"

-----------------------------------------------------------------------------
(* The heap specification: a heap of two Leaves, then up to MaxOps         *)
(* operations of the PathsTree interface.                                  *)

MainLocs == {"x", "y"}

InitTysX == { OuterTy(0, 1), AdtTy1("Opt", 1) }

InitTysY == { Ptr(LocX) }

MainProjections == { <<>>, <<Deref>>, <<Field(0)>>, <<Downcast(1)>> }

InsertTys == { PairTy(1, 2) }

WriteTys == { I32(Const(2)) }

Init ==
    /\ heap \in { ("x" :> NodeTy(tx)) @@ ("y" :> NodeTy(ty)) :
                    tx \in InitTysX, ty \in InitTysY }
    /\ other = EmptyMap
    /\ log = <<>>
    /\ fatal = "none"
    /\ debug_assertions \in BOOLEAN
    /\ chk = NoCheck

MoreOps == Len(log) < MaxOps

Next ==
    \/ \E loc \in MainLocs, ty \in InsertTys : MoreOps /\ Insert(loc, ty)
    \/ \E loc \in DOMAIN heap : MoreOps /\ Remove(loc)
    \/ \E p \in PosOf(heap), ty \in WriteTys : MoreOps /\ GetMutWrite(p, ty)
    \/ \E p \in PosOf(heap), v \in Variants : MoreOps /\ Unfold(p, v)
    \/ \E p \in PosOf(heap) : MoreOps /\ Fold(p)
    \/ \E local \in MainLocs, projection \in MainProjections, w \in HandleWrites :
         MoreOps /\ LookupPlace(Place(local, projection), w)
    \/ MoreOps /\ Clone
    \/ MoreOps /\ UnfoldWith
    \/ MoreOps /\ FoldUnfoldWith

Spec == Init /\ [][Next]_vars

-----------------------------------------------------------------------------
(* The reconciliation specification: the trees of two branches, equal but  *)
(* for the locations one of them alone has, diverge by unfolds and writes  *)
(* and are reconciled by unfold_with or fold_unfold_with.                  *)

JoinTysX == { AdtTy1("Opt", 1), OuterTy(0, 1) }

JoinTrees(t) == { "x" :> NodeTy(t), ("x" :> NodeTy(t)) @@ ("y" :> NodeTy(PairTy(0, 1))) }

JoinWriteTys == { I32(Const(2)) }

InitJoin ==
    /\ \E t \in JoinTysX : heap \in JoinTrees(t) /\ other \in JoinTrees(t)
    /\ log = <<>>
    /\ fatal = "none"
    /\ debug_assertions \in BOOLEAN
    /\ chk = NoCheck

JoinRunning == Len(log) < MaxJoinOps

NextJoin ==
    \/ \E p \in PosOf(heap), v \in Variants : JoinRunning /\ Unfold(p, v)
    \/ \E p \in PosOf(other), v \in Variants : JoinRunning /\ UnfoldOther(p, v)
    \/ \E p \in PosOf(heap), ty \in JoinWriteTys : JoinRunning /\ GetMutWrite(p, ty)
    \/ \E p \in PosOf(other), ty \in JoinWriteTys : JoinRunning /\ GetMutWriteOther(p, ty)
    \/ \E local \in MainLocs, projection \in MainProjections :
         JoinRunning /\ LookupPlace(Place(local, projection), NoWrite)
    \/ JoinRunning /\ UnfoldWith
    \/ JoinRunning /\ FoldUnfoldWith

SpecJoin == InitJoin /\ [][NextJoin]_vars

-----------------------------------------------------------------------------
(* Substitution (subst.rs).  A Subst is its map, a function from the       *)
(* variables it maps to their images.                                      *)

Var(x) == [ek |-> "Var", x |-> x]
BinaryOp(op, e1, e2) == [ek |-> "BinaryOp", op |-> op, e1 |-> e1, e2 |-> e2]
UnaryOp(op, e) == [ek |-> "UnaryOp", op |-> op, e |-> e]

\* subst_var looking its image up in the map once more when the image is a
\* variable
subst_var_again(map, x) ==
    IF x \in DOMAIN map
    THEN IF map[x].ek = "Var" /\ map[x].x \in DOMAIN map THEN map[map[x].x] ELSE map[x]
    ELSE Var(x)

\* self.map.get(&x).cloned().unwrap_or_else(|| ExprKind::Var(x).intern())
subst_var(map, x) == IF x \in DOMAIN map THEN map[x] ELSE Var(x)

RECURSIVE subst_expr(_, _)
subst_expr(map, e) ==
    CASE e.ek = "Var" -> subst_var(map, e.x)
      [] e.ek = "Const" -> e
      [] e.ek = "BinaryOp" ->
           BinaryOp(e.op, subst_expr(map, e.e1), subst_expr(map, e.e2))
      [] e.ek = "UnaryOp" -> UnaryOp(e.op, subst_expr(map, e.e))

\* The predicates and the types of subst.rs
KVar(kvid, args) == [pk |-> "KVar", kvid |-> kvid, args |-> args]
PredExpr(e) == [pk |-> "Expr", e |-> e]
Refine(bty, e) == [kind |-> "Refine", bty |-> bty, e |-> e]
Exists(bty, evar, pred) == [kind |-> "Exists", bty |-> bty, evar |-> evar, pred |-> pred]
MutRef(region) == [kind |-> "MutRef", region |-> region]

\* subst_pred handing the substituted arguments of a predicate variable over
\* from the last to the first
subst_pred_rev(map, pred) ==
    IF pred.pk = "KVar"
    THEN KVar(pred.kvid, [j \in DOMAIN pred.args |->
                            subst_expr(map, pred.args[Len(pred.args) + 1 - j])])
    ELSE PredExpr(subst_expr(map, pred.e))

subst_pred(map, pred) ==
    IF pred.pk = "KVar"
    THEN KVar(pred.kvid, [j \in DOMAIN pred.args |-> subst_expr(map, pred.args[j])])
    ELSE PredExpr(subst_expr(map, pred.e))

subst_ty(map, ty) ==
    CASE ty.kind = "Refine" -> Refine(ty.bty, subst_expr(map, ty.e))
      [] ty.kind = "Exists" -> Exists(ty.bty, ty.evar, subst_pred(map, ty.pred))
      [] ty.kind \in {"Uninit", "MutRef", "Param"} -> ty

\* subst.subst_pred(pred)
SubstPred(map, pred) ==
    /\ Running
    /\ Done(heap, other, Entry("subst_pred", [map |-> map, pred |-> pred,
                                              res |-> subst_pred(map, pred)]))

\* subst.subst_ty(ty)
SubstTy(map, ty) ==
    /\ Running
    /\ Done(heap, other, Entry("subst_ty", [map |-> map, ty |-> ty,
                                            res |-> subst_ty(map, ty)]))

\* subst.subst_expr(e)
SubstExpr(map, e) ==
    /\ Running
    /\ Done(heap, other, Entry("subst_expr", [map |-> map, e |-> e,
                                              res |-> subst_expr(map, e)]))

-----------------------------------------------------------------------------
(* The substitution specification: a mapping of the variables a and b, then *)
(* one subst_expr of an expression of depth MaxExprDepth at most.           *)

MaxExprDepth == 2     \* deepest expression substituted

SubstVars == {"a", "b"}

Atoms == { Var(x) : x \in SubstVars } \cup { Const(0) }

BinOps == {"Sub", "Lt"}

\* The expressions of depth d at most with an atom on one side of every
\* binary operation
RECURSIVE ExprsOfDepth(_)
ExprsOfDepth(d) ==
    IF d = 0 THEN Atoms
    ELSE Atoms
         \cup { UnaryOp("Neg", e) : e \in ExprsOfDepth(d - 1) }
         \cup { BinaryOp(op, e, a) : op \in BinOps, e \in ExprsOfDepth(d - 1), a \in Atoms }
         \cup { BinaryOp(op, a, e) : op \in BinOps, e \in ExprsOfDepth(d - 1), a \in Atoms }

\* The images of a mapping: a variable the mapping may map as well, a constant,
\* an operation on the variable itself
SubstImages == { Var("a"), Var("b"), Const(1), BinaryOp("Sub", Var("a"), Const(1)) }

SubstMaps == UNION { [dom -> SubstImages] : dom \in SUBSET SubstVars }

InitSubst ==
    /\ heap = EmptyMap
    /\ other = EmptyMap
    /\ log = <<>>
    /\ fatal = "none"
    /\ debug_assertions \in BOOLEAN
    /\ chk = NoCheck

\* The predicates: an expression, or a predicate variable over up to two atoms
SubstPreds ==
    { PredExpr(e) : e \in ExprsOfDepth(MaxExprDepth - 1) }
    \cup { KVar(kvid, args) : kvid \in {0, 1},
                              args \in {<<>>} \cup { <<a>> : a \in Atoms } \cup (Atoms \X Atoms) }

\* The types: a refinement, an existential binding a mapped or another
\* variable, and the types with nothing to substitute
SubstTys ==
    { Refine(IntBty, e) : e \in ExprsOfDepth(MaxExprDepth - 1) }
    \cup { Exists(IntBty, evar, pred) : evar \in {"a", "v"}, pred \in SubstPreds }
    \cup { Uninit, MutRef(0), Param(0) }

NextSubst ==
    \/ /\ log = <<>>
       /\ \E map \in SubstMaps, e \in ExprsOfDepth(MaxExprDepth) : SubstExpr(map, e)
    \/ /\ log = <<>>
       /\ \E map \in SubstMaps, pred \in SubstPreds : SubstPred(map, pred)
    \/ /\ log = <<>>
       /\ \E map \in SubstMaps, ty \in SubstTys : SubstTy(map, ty)

SpecSubst == InitSubst /\ [][NextSubst]_vars

-----------------------------------------------------------------------------
(* Checking the declared invariants of an ADT (invariants.rs).  chk holds  *)
(* the ADT, the number of its declared invariants, the invariant and the   *)
(* variant check_invariant stands at, the contexts pushed on the refine    *)
(* tree of the current invariant, and per finished check_invariant what it *)
(* returned.  The queries and the solver are the environment: each call    *)
(* answers with one of the outcomes its signature allows.                  *)

MaxInvariants == 2    \* most invariants an ADT declares

\* check_invariants is entered for ADT d with n declared invariants; opaque:
\* variant_sig answers None
CheckStart(d, n, opaque) ==
    [pc |-> "iter", adt |-> d, invariants |-> n, opaque |-> opaque, idx |-> 0,
     variant |-> 0, tree |-> <<>>, solves |-> 0, results |-> <<>>, ret |-> "none"]

\* check_invariant for invariant c.idx returns res
InvReturn(c, res, answer, errors, diag) ==
    [c EXCEPT !.pc = "iter", !.idx = @ + 1,
              !.results = Append(@, [idx |-> c.idx, res |-> res, tree |-> c.tree,
                                     solves |-> c.solves, answer |-> answer,
                                     errors |-> errors, diag |-> diag, span |-> c.idx])]

\* try_for_each_exhaust: the closure is called for every item
exhaust_continue(c) == c.idx < c.invariants

\* try_for_each_exhaust: Err if a call of the closure returned Err
exhaust_result(results) ==
    IF \E i \in DOMAIN results : results[i].res = "Err" THEN "Err" ELSE "Ok"

\* the context of one variant: the invariants of its fields assumed, then the
\* invariant applied to the index of the variant as the predicate to check
VariantCtxt(c) ==
    [variant |-> c.variant, assumed |-> AdtDef_variant_sig(c.adt, c.variant),
     pred |-> [invariant |-> c.idx, variant |-> c.variant]]

\* if errors.is_empty() taking the list for empty when the first context is
\* not in it
errors_result_first(c, errors) ==
    IF 1 \notin errors THEN InvReturn(c, "Ok", "list", errors, "none")
    ELSE InvReturn(c, "Err", "list", errors, "Invalid")

\* if errors.is_empty() { Ok(()) } else { Err(emit_err(Invalid { span })) }
errors_result(c, errors) ==
    IF errors = {} THEN InvReturn(c, "Ok", "list", errors, "none")
    ELSE InvReturn(c, "Err", "list", errors, "Invalid")

\* check_invariant is called for the next invariant: RefineTree::new(..).emit()?
CheckInvariantBegin(ok) ==
    /\ Running /\ chk.pc = "iter" /\ exhaust_continue(chk)
    /\ chk' = IF ok THEN [chk EXCEPT !.pc = "variants", !.variant = 0, !.tree = <<>>,
                                     !.solves = 0]
              ELSE InvReturn([chk EXCEPT !.tree = <<>>, !.solves = 0],
                             "Err", "none", {}, "emit")
    /\ UNCHANGED <<heap, other, log, fatal, debug_assertions>>

\* one round of the loop over the variants: variant_sig(..).emit()? is an Err,
\* or None (expect panics), or the signature, whose context is pushed
CheckVariant(ok) ==
    /\ Running /\ chk.pc = "variants" /\ chk.variant < NumVariants(chk.adt)
    /\ IF ~ok
       THEN /\ chk' = InvReturn(chk, "Err", "none", {}, "emit")
            /\ UNCHANGED fatal
       ELSE IF chk.opaque
       THEN /\ fatal' = "expect"
            /\ UNCHANGED chk
       ELSE /\ chk' = [chk EXCEPT !.tree = Append(@, VariantCtxt(chk)), !.variant = @ + 1]
            /\ UNCHANGED fatal
    /\ UNCHANGED <<heap, other, log, debug_assertions>>

\* CheckSolve with the solver invoked from inside the loop, once a context
\* has been pushed
CheckSolve_early(ok, errors) ==
    /\ Running /\ chk.pc = "variants" /\ chk.variant >= 1
    /\ chk' = IF ok THEN errors_result([chk EXCEPT !.solves = @ + 1], errors)
              ELSE InvReturn([chk EXCEPT !.solves = @ + 1], "Err", "err", {}, "emit")
    /\ UNCHANGED <<heap, other, log, fatal, debug_assertions>>

\* after the loop: invoke_fixpoint(.., refine_tree, ..).emit()? is an Err, or the
\* list of the contexts that did not discharge
CheckSolve(ok, errors) ==
    /\ Running /\ chk.pc = "variants" /\ chk.variant = NumVariants(chk.adt)
    /\ chk' = IF ok THEN errors_result([chk EXCEPT !.solves = @ + 1], errors)
              ELSE InvReturn([chk EXCEPT !.solves = @ + 1], "Err", "err", {}, "emit")
    /\ UNCHANGED <<heap, other, log, fatal, debug_assertions>>

\* check_invariants returning at the first Err of a check_invariant, as with `?`
CheckInvariantsReturn_early ==
    /\ Running /\ chk.pc = "iter"
    /\ ~exhaust_continue(chk) \/ exhaust_result(chk.results) = "Err"
    /\ chk' = [chk EXCEPT !.pc = "done", !.ret = exhaust_result(chk.results)]
    /\ UNCHANGED <<heap, other, log, fatal, debug_assertions>>

\* check_invariants returns what try_for_each_exhaust returns
CheckInvariantsReturn ==
    /\ Running /\ chk.pc = "iter" /\ ~exhaust_continue(chk)
    /\ chk' = [chk EXCEPT !.pc = "done", !.ret = exhaust_result(chk.results)]
    /\ UNCHANGED <<heap, other, log, fatal, debug_assertions>>

-----------------------------------------------------------------------------
(* The invariant checking specification: one call of check_invariants for  *)
(* a struct or an enum with up to MaxInvariants declared invariants.       *)

InvAdts == {"Pair", "Opt"}

InitInv ==
    /\ heap = EmptyMap
    /\ other = EmptyMap
    /\ log = <<>>
    /\ fatal = "none"
    /\ debug_assertions \in BOOLEAN
    /\ chk \in { CheckStart(d, n, o) : d \in InvAdts, n \in 0 .. MaxInvariants, o \in BOOLEAN }

NextInv ==
    \/ \E ok \in BOOLEAN : CheckInvariantBegin(ok)
    \/ \E ok \in BOOLEAN : CheckVariant(ok)
    \/ \E errors \in SUBSET (1 .. Len(chk.tree)) : CheckSolve(TRUE, errors)
    \/ CheckSolve(FALSE, {})
    \/ CheckInvariantsReturn

SpecInv == InitInv /\ [][NextInv]_vars

-----------------------------------------------------------------------------
(* Properties of place resolution                                          *)

\* The last operation is a lookup_place that handed a result to its continuation
Resolved == N >= 1 /\ Last.op = "lookup_place" /\ fatal = "none"

\* The positions of a dereference trace that crossed a reference of mode m
RefsCrossed(ds, m) == { i \in DOMAIN ds : ds[i] = DerefRef(m) }

\* C3: mode monotonicity.  When the dereferences of a resolution cross k shared
\* and m mutable references, k + m >= 1, in any order and possibly between field
\* projections and raw-pointer dereferences, the mode of the result is shared if
\* k >= 1 and mutable if k = 0.
C3_ModeMonotone ==
    ( /\ Resolved
      /\ RefsCrossed(Last.derefs, "Shr") \cup RefsCrossed(Last.derefs, "Mut") # {}
      /\ Last.res.tag = "Ref" )
    => Last.res.mode = IF RefsCrossed(Last.derefs, "Shr") # {} THEN "Shr" ELSE "Mut"

\* A resolution crossed a shared reference, a mutable one, a raw pointer and a
\* mutable reference again, in this order, and its result is shared
C3_Witness ==
    /\ Resolved
    /\ Last.derefs = <<DerefRef("Shr"), DerefRef("Mut"), DerefPtr(LocY), DerefRef("Mut")>>
    /\ Last.res.tag = "Ref"
    /\ Last.res.mode = "Shr"

\* C4: once a resolution has dereferenced a reference, shared or mutable, its
\* result is the copied view LookupResult::Ref and never the handle
\* LookupResult::Ptr, also when a later raw-pointer dereference re-enters the
\* resolution in the heap at the pointee.
C4_RefAfterReference ==
    ( /\ Resolved
      /\ \E i \in DOMAIN Last.derefs : Last.derefs[i].d = "Ref" )
    => Last.res.tag = "Ref"

\* A resolution dereferenced a reference, then ended at the pointee of a raw
\* pointer it dereferenced last, and handed over a copied view
C4_Witness ==
    /\ Resolved
    /\ Len(Last.derefs) >= 2
    /\ Last.derefs[1].d = "Ref"
    /\ Last.derefs[Len(Last.derefs)].d = "Ptr"
    /\ Last.res.tag = "Ref"

\* The field indices of a sequence of place elements, in order
RECURSIVE FieldsOf(_)
FieldsOf(elems) ==
    IF elems = <<>> THEN <<>>
    ELSE IF Head(elems).e = "Field" THEN <<Head(elems).n>> \o FieldsOf(Tail(elems))
    ELSE FieldsOf(Tail(elems))

DerefFree(elems) == \A i \in DOMAIN elems : elems[i].e \in {"Field", "Downcast"}

\* The place elements after the last dereference
RECURSIVE AfterLastDeref(_)
AfterLastDeref(elems) ==
    IF \E i \in DOMAIN elems : elems[i].e = "Deref"
    THEN AfterLastDeref(Tail(elems))
    ELSE elems

\* The handle at path p: a Leaf when the continuation ran, and what the
\* continuation wrote through it is what get(p) returns afterwards
HandleAt(p) ==
    /\ NodeAtPath(Last.map, p).tag = "Ty"
    /\ Last.write # NoWrite =>
         get(heap, p) = [some |-> TRUE, ty |-> Last.write, fatal |-> "none"]

\* C9: dereference-free resolution.  For a place of field and downcast elements
\* only, lookup_place hands over LookupResult::Ptr(p, handle) with p the local
\* followed by the field indices of the place in order (a downcast adds none);
\* p is a Leaf when the continuation runs, and a type written through the
\* handle is what get(p) returns afterwards.
C9_DerefFree ==
    (Resolved /\ DerefFree(Last.place.projection))
    => /\ Last.res = LookupPtr(Path(Last.place.local, FieldsOf(Last.place.projection)))
       /\ HandleAt(Last.res.path)

\* A resolution through a downcast and a field wrote through the handle
C9_Witness ==
    /\ Resolved
    /\ Last.place.projection = <<Downcast(1), Field(1)>>
    /\ Last.res = LookupPtr(Path(Last.place.local, <<1>>))
    /\ Last.write # NoWrite
    /\ get(heap, Last.res.path).some
    /\ get(heap, Last.res.path).ty = Last.write

AllPtrDerefs(ds) == ds # <<>> /\ \A i \in DOMAIN ds : ds[i].d = "Ptr"

\* C10: pointer chains.  When every dereference of a resolution lands on a raw
\* pointer Leaf, whatever the length of the chain, lookup_place hands over
\* LookupResult::Ptr(p, handle) with p the pointee path of the last pointer
\* dereferenced followed by the field elements after it, and the handle is the
\* node at p: a write through it shows at p and at no other location.
C10_PointerChain ==
    (Resolved /\ AllPtrDerefs(Last.derefs))
    => LET last == Last.derefs[Len(Last.derefs)].path
           p == Path(last.loc, last.proj \o FieldsOf(AfterLastDeref(Last.place.projection)))
       IN /\ Last.res = LookupPtr(p)
          /\ HandleAt(p)
          /\ \A l \in (DOMAIN heap) \ {p.loc} : heap[l] = Last.map[l]

\* A chain of two pointers ended inside another location than the one the place
\* started from, two fields deep, and the continuation wrote there
C10_Witness ==
    /\ Resolved
    /\ Len(Last.derefs) = 2
    /\ AllPtrDerefs(Last.derefs)
    /\ Last.res.tag = "Ptr"
    /\ Last.res.path.loc # Last.place.local
    /\ Len(Last.res.path.proj) = 2
    /\ Last.write # NoWrite
    /\ get(heap, Last.res.path).some
    /\ get(heap, Last.res.path).ty = Last.write

-----------------------------------------------------------------------------
(* Properties of the heap                                                  *)

\* C5: path uniqueness.  In every heap reached by insert, remove, unfold, fold,
\* lookup_place and reconciliation, iter() yields no two equal paths, and for
\* every pair (path, ty) it yields get(path) is Some of that ty.
C5_PathsUnique ==
    LET items == iter(heap)
    IN /\ \A i, j \in DOMAIN items : items[i].path = items[j].path => i = j
       /\ \A i \in DOMAIN items :
            get(heap, items[i].path) =
              [some |-> TRUE, ty |-> items[i].ty, fatal |-> "none"]

\* The heap has two locations, one a Record with a Record inside, and iter()
\* yields a path of each depth
C5_Witness ==
    /\ Cardinality(DOMAIN heap) = 2
    /\ \E i, j, k \in DOMAIN paths(heap) :
         /\ Len(paths(heap)[i].proj) = 0
         /\ Len(paths(heap)[j].proj) = 1
         /\ Len(paths(heap)[k].proj) = 2

\* Every Record of a node, at any depth, has as many children as its variant
\* declares fields
RECURSIVE FieldCountOk(_)
FieldCountOk(node) ==
    node.tag = "Adt" =>
      /\ Len(node.fields) = Len(AdtDef_variant_sig(node.adt, node.variant))
      /\ \A i \in DOMAIN node.fields : FieldCountOk(node.fields[i])

\* C6: field-count invariant.  In every reachable heap, every Record, at any
\* depth, has exactly as many children as the variant it is tagged with
\* declares fields, for every variant of every ADT.
C6_FieldCount ==
    /\ \A l \in DOMAIN heap : FieldCountOk(heap[l])
    /\ \A l \in DOMAIN other : FieldCountOk(other[l])

\* The heap holds a Record of two fields, one of them a Record of two fields
C6_Witness ==
    \E l \in DOMAIN heap :
      /\ heap[l].tag = "Adt"
      /\ Len(heap[l].fields) = 2
      /\ \E i \in DOMAIN heap[l].fields :
           /\ heap[l].fields[i].tag = "Adt"
           /\ Len(heap[l].fields[i].fields) = 2

\* C8: reconciliation idempotence.  h.unfold_with(a clone of h) returns and
\* leaves h as it was before the call (locations, Leaf / Record shape, variants
\* and leaf types), and leaves the clone equal to it.
C8_UnfoldWithClone ==
    (N >= 1 /\ Last.op = "unfold_with" /\ Last.pre_other = Last.pre)
    => /\ fatal = "none"
       /\ heap = Last.pre
       /\ other = Last.pre

\* A heap holding a Record and a Leaf of an ADT was reconciled with its clone
C8_Witness ==
    /\ N >= 2 /\ log[N - 1].op = "clone" /\ Last.op = "unfold_with"
    /\ Last.pre_other = Last.pre
    /\ \E l \in DOMAIN heap : heap[l].tag = "Adt"
    /\ \E p \in PosOf(heap) :
         /\ NodeAtPath(heap, p).tag = "Ty"
         /\ Ty_unfold(NodeAtPath(heap, p).ty, 0).some

-----------------------------------------------------------------------------
(* Well-typed places                                                       *)

\* The value a node stands for is a value of an ADT that has variant v
IsAdtValue(cur, v) ==
    IF cur.tag = "Adt" THEN cur.variant = v ELSE Ty_unfold(cur.ty, v).some

\* The number of fields of variant v of the ADT value cur
NumFields(cur, v) ==
    IF cur.tag = "Adt" THEN Len(cur.fields) ELSE Len(Ty_unfold(cur.ty, v).fields)

\* Field f of the ADT value cur taken as variant v
FieldNode(cur, v, f) ==
    IF cur.tag = "Adt" THEN cur.fields[f + 1] ELSE NodeTy(Ty_unfold(cur.ty, v).fields[f + 1])

\* The variant a field projection with no downcast before it refers to
StructVariant(cur) == IF cur.tag = "Adt" THEN cur.variant ELSE 0

IsStruct(cur) ==
    \/ cur.tag = "Adt"
    \/ Ty_unfold(cur.ty, 0).some /\ NumVariants(cur.ty.bty.def) = 1

\* The value at the fields proj below the value cur, if proj is a path of fields of it
RECURSIVE ValueAt(_, _)
ValueAt(cur, proj) ==
    IF proj = <<>> THEN [some |-> TRUE, node |-> cur]
    ELSE IF IsStruct(cur) /\ Head(proj) < NumFields(cur, StructVariant(cur))
         THEN ValueAt(FieldNode(cur, StructVariant(cur), Head(proj)), Tail(proj))
         ELSE [some |-> FALSE]

\* elems is a well-typed projection of the value cur: every dereference is of a
\* pointer to a value of the heap or of a reference, every downcast is of an ADT
\* value to one of its variants and comes before a field of it, every field is a
\* field of the variant downcast to or of the one variant of a struct
RECURSIVE WellTypedFrom(_, _, _)
WellTypedFrom(map, cur, elems) ==
    IF elems = <<>> THEN TRUE
    ELSE CASE Head(elems).e = "Deref" ->
                /\ cur.tag = "Ty"
                /\ cur.ty.kind \in {"Ptr", "Ref"}
                /\ IF cur.ty.kind = "Ref"
                   THEN WellTypedFrom(map, NodeTy(cur.ty.ty), Tail(elems))
                   ELSE /\ cur.ty.path.loc \in DOMAIN map
                        /\ ValueAt(map[cur.ty.path.loc], cur.ty.path.proj).some
                        /\ WellTypedFrom(
                             map, ValueAt(map[cur.ty.path.loc], cur.ty.path.proj).node,
                             Tail(elems))
           [] Head(elems).e = "Downcast" ->
                /\ Len(elems) >= 2
                /\ elems[2].e = "Field"
                /\ IsAdtValue(cur, Head(elems).n)
                /\ elems[2].n < NumFields(cur, Head(elems).n)
                /\ WellTypedFrom(map, FieldNode(cur, Head(elems).n, elems[2].n),
                                 Tail(Tail(elems)))
           [] Head(elems).e = "Field" ->
                /\ IsStruct(cur)
                /\ Head(elems).n < NumFields(cur, StructVariant(cur))
                /\ WellTypedFrom(map, FieldNode(cur, StructVariant(cur), Head(elems).n),
                                 Tail(elems))
           [] OTHER -> FALSE

WellTyped(map, place) ==
    /\ place.local \in DOMAIN map
    /\ WellTypedFrom(map, map[place.local], place.projection)

\* C11: a well-typed access path never hits the fatal condition.  For every
\* place of field, dereference and downcast elements in which every dereference
\* is of a pointer or a reference and every field and downcast of an ADT value of
\* the matching variant, lookup_place calls the continuation, whether the
\* elements come before or after a reference was dereferenced.
C11_WellTypedNeverFatal ==
    (N >= 1 /\ Last.op = "lookup_place" /\ WellTyped(Last.pre, Last.place))
    => fatal = "none"

-----------------------------------------------------------------------------
(* Properties of reconciliation                                            *)

\* Two nodes have the same Leaf / Record shape, with the same variant at every position
RECURSIVE SameShape(_, _)
SameShape(n1, n2) ==
    IF n1.tag = "Ty" \/ n2.tag = "Ty" THEN n1.tag = n2.tag
    ELSE /\ n1.variant = n2.variant
         /\ Len(n1.fields) = Len(n2.fields)
         /\ \A i \in DOMAIN n1.fields : SameShape(n1.fields[i], n2.fields[i])

\* Every position that is a Record of the node before is a Record of the node after
RECURSIVE RecordsKept(_, _)
RecordsKept(before, after) ==
    before.tag = "Adt" =>
      /\ after.tag = "Adt"
      /\ Len(after.fields) = Len(before.fields)
      /\ \A i \in DOMAIN before.fields : RecordsKept(before.fields[i], after.fields[i])

\* Some position is a Record of both nodes, under different variants
RECURSIVE VariantClash(_, _)
VariantClash(n1, n2) ==
    /\ n1.tag = "Adt" /\ n2.tag = "Adt"
    /\ \/ n1.variant # n2.variant
       \/ \E i \in 1 .. MinLen(n1.fields, n2.fields) :
            VariantClash(n1.fields[i], n2.fields[i])

Shared(m1, m2) == (DOMAIN m1) \cap (DOMAIN m2)

\* C12: unfold_with aligns both heaps by unfolding only.  After
\* self.unfold_with(other), at every location of both heaps the two roots have
\* the same Leaf / Record shape with the same variant at every position, at any
\* depth on either side, and no position that was a Record of either side
\* before the call is a Leaf after it.
C12_UnfoldWithAligns ==
    (N >= 1 /\ Last.op = "unfold_with" /\ fatal = "none") =>
      \A l \in Shared(heap, other) :
        /\ SameShape(heap[l], other[l])
        /\ RecordsKept(Last.pre[l], heap[l])
        /\ RecordsKept(Last.pre_other[l], other[l])

\* C13: fold_unfold_with makes self match other and leaves other untouched.
\* After self.fold_unfold_with(rcx, other), at every location of both heaps
\* self's root has the Leaf / Record shape and the variants of other's at every
\* position (a Record of self is folded where other has a Leaf, a Leaf of self
\* unfolded where other has a Record), and other is as it was before the call.
C13_FoldUnfoldWithMatches ==
    (N >= 1 /\ Last.op = "fold_unfold_with" /\ fatal = "none") =>
      /\ other = Last.pre_other
      /\ \A l \in Shared(heap, other) : SameShape(heap[l], other[l])

\* C18: the location set changes only through insert and remove.  lookup_place,
\* unfold_with and fold_unfold_with, and the unfolds and folds they perform, add
\* and remove no location of either heap, and a reconciliation leaves every
\* location that only one of the two heaps has as it was.
C18_LocationsKept ==
    (N >= 1 /\ Last.op \notin {"insert", "remove", "clone"}) =>
      /\ DOMAIN heap = DOMAIN Last.pre
      /\ DOMAIN other = DOMAIN Last.pre_other
      /\ Last.op \in {"unfold_with", "fold_unfold_with"} =>
           /\ \A l \in (DOMAIN Last.pre) \ (DOMAIN Last.pre_other) :
                l \in DOMAIN heap /\ heap[l] = Last.pre[l]
           /\ \A l \in (DOMAIN Last.pre_other) \ (DOMAIN Last.pre) :
                l \in DOMAIN other /\ other[l] = Last.pre_other[l]

\* An unfold_with unfolded a location of both heaps while self had a location,
\* a Record, that other had not
C18_Witness ==
    /\ N >= 1 /\ Last.op = "unfold_with" /\ fatal = "none"
    /\ heap # Last.pre
    /\ \E l \in (DOMAIN heap) \ (DOMAIN other) : heap[l].tag = "Adt"

-----------------------------------------------------------------------------
(* Termination of place resolution                                         *)

\* The dereference elements of a projection
DerefsOf(elems) == { i \in DOMAIN elems : elems[i].e = "Deref" }

\* C17: resolution terminates.  Every lookup_place ends, with the continuation
\* called or with the fatal condition, after at most one pointer or reference
\* hop per dereference element of the place, also when the pointers of the heap
\* form a cycle: each hop consumes one dereference element, and a resolution
\* that returns has made exactly one hop per dereference element.
C17_HopsBounded ==
    (N >= 1 /\ Last.op = "lookup_place") =>
      /\ Len(Last.derefs) <= Cardinality(DerefsOf(Last.place.projection))
      /\ fatal = "none" => Len(Last.derefs) = Cardinality(DerefsOf(Last.place.projection))

\* A resolution went round a cycle of pointers, through the same location
\* more than once, for as many hops as the place has elements, and returned
C17_Witness ==
    /\ Resolved
    /\ Len(Last.derefs) = MaxPlaceLen
    /\ AllPtrDerefs(Last.derefs)
    /\ \E i, j \in DOMAIN Last.derefs : i < j /\ Last.derefs[i] = Last.derefs[j]
    /\ Last.res = LookupPtr(Path(Last.place.local, <<>>))

-----------------------------------------------------------------------------
(* The postcondition of fold                                                *)

\* The signature type sig names the declared index k at a position where the
\* actual type ty carries the expression e
RECURSIVE Binds(_, _, _, _)
Binds(ty, sig, k, e) ==
    CASE ty.kind = "Indexed" /\ sig.kind = "Indexed" ->
           \E j \in 1 .. MinLen(ty.idxs, sig.idxs) :
             sig.idxs[j] = BVar(k) /\ ty.idxs[j] = e
      [] ty.kind = "Ref" /\ sig.kind = "Ref" -> Binds(ty.ty, sig.ty, k, e)
      [] OTHER -> FALSE

\* idxs holds, at the place of every declared index of the Record's ADT, an
\* expression a field of the Record (all Leaves) carries for that index
InDeclarationOrder(rec, idxs) ==
    \A k \in 0 .. (AdtDef_sorts(rec.adt) - 1) :
      \E i \in 1 .. MinLen(rec.fields, AdtDef_variant_sig(rec.adt, rec.variant)) :
        Binds(rec.fields[i].ty, AdtDef_variant_sig(rec.adt, rec.variant)[i], k, idxs[k + 1])

\* C19: the postcondition of fold.  After a fold that returns at a position that
\* held a Record, of any nesting depth, the position holds a single Leaf (so no
\* Record remains at or below it) whose type is the Record's ADT with one index
\* per declared sort, in declaration order; a fold at a position that holds a
\* Leaf leaves the whole heap as it was.
C19_FoldPostcondition ==
    (N >= 1 /\ Last.op = "fold" /\ fatal = "none") =>
      LET rec == NodeAtPath(Last.pre, Last.path)
          now == NodeAtPath(heap, Last.path)
      IN IF rec.tag = "Ty" THEN heap = Last.pre
         ELSE /\ now.tag = "Ty"
              /\ now.ty.kind = "Indexed"
              /\ now.ty.bty.b = "Adt" /\ now.ty.bty.def = rec.adt
              /\ Len(now.ty.idxs) = AdtDef_sorts(rec.adt)
              /\ AllLeaves(rec) => InDeclarationOrder(rec, now.ty.idxs)
              /\ heap = SetNode(Last.pre, Last.path.loc, Last.path.proj, now)

\* A fold returned at a Record that held a Record among its fields
C19_Witness ==
    /\ N >= 1 /\ Last.op = "fold" /\ fatal = "none"
    /\ NodeAtPath(Last.pre, Last.path).tag = "Adt"
    /\ \E i \in DOMAIN NodeAtPath(Last.pre, Last.path).fields :
         NodeAtPath(Last.pre, Last.path).fields[i].tag = "Adt"
    /\ NodeAtPath(heap, Last.path).tag = "Ty"

-----------------------------------------------------------------------------
(* Unfold of a Record                                                      *)

\* The last operation is an unfold under the variant the Record at its position
\* is tagged with
UnfoldOfRecord ==
    /\ N >= 1 /\ Last.op = "unfold"
    /\ NodeAtPath(Last.pre, Last.path).tag = "Adt"
    /\ NodeAtPath(Last.pre, Last.path).variant = Last.variant

\* C20: unfold is idempotent on Records.  An unfold of a position that holds a
\* Record tagged with variant V, under V, returns and leaves the node (its field
\* types written since the first unfold and the Records below it) and the rest
\* of the heap as they were.
C20_UnfoldIdempotent ==
    UnfoldOfRecord => (fatal = "none" /\ heap = Last.pre)

\* A Record was unfolded again under its variant right after one of its fields
\* had been overwritten with another type
C20_Witness ==
    /\ N >= 3 /\ UnfoldOfRecord /\ fatal = "none"
    /\ log[N - 1].op = "get_mut" /\ log[N - 1].some
    /\ log[N - 1].path.loc = Last.path.loc
    /\ \E f \in 0 .. 1 : log[N - 1].path.proj = Append(Last.path.proj, f)
    /\ NodeAtPath(log[N - 1].pre, log[N - 1].path) # NodeAtPath(heap, log[N - 1].path)
    /\ NodeAtPath(heap, log[N - 1].path) = NodeTy(log[N - 1].ty)

-----------------------------------------------------------------------------
(* Substitution of expressions                                             *)

\* The positions of an expression: the operands walked from the root
RECURSIVE Positions(_)
Positions(e) ==
    CASE e.ek = "BinaryOp" ->
           {<<>>} \cup { <<1>> \o q : q \in Positions(e.e1) }
                  \cup { <<2>> \o q : q \in Positions(e.e2) }
      [] e.ek = "UnaryOp" -> {<<>>} \cup { <<1>> \o q : q \in Positions(e.e) }
      [] OTHER -> {<<>>}

RECURSIVE SubAt(_, _)
SubAt(e, q) ==
    IF q = <<>> THEN e
    ELSE IF e.ek = "UnaryOp" THEN SubAt(e.e, Tail(q))
    ELSE IF Head(q) = 1 THEN SubAt(e.e1, Tail(q))
    ELSE SubAt(e.e2, Tail(q))

\* What the result res holds at position q of the expression e for the mapping map
RewrittenAt(map, e, res, q) ==
    /\ q \in Positions(res)
    /\ CASE SubAt(e, q).ek = "Var" ->
              SubAt(res, q) = IF SubAt(e, q).x \in DOMAIN map THEN map[SubAt(e, q).x]
                              ELSE SubAt(e, q)
         [] SubAt(e, q).ek = "Const" -> SubAt(res, q) = SubAt(e, q)
         [] SubAt(e, q).ek = "BinaryOp" ->
              /\ SubAt(res, q).ek = "BinaryOp"
              /\ SubAt(res, q).op = SubAt(e, q).op
         [] SubAt(e, q).ek = "UnaryOp" ->
              /\ SubAt(res, q).ek = "UnaryOp"
              /\ SubAt(res, q).op = SubAt(e, q).op

\* C14: substitution is a simultaneous homomorphic rewrite.  subst_expr puts the
\* image, as it stands in the mapping, where a mapped variable occurs, leaves
\* every other variable and every constant as it is, and keeps the operator of
\* every unary and binary operation with its operands in their order; with the
\* empty mapping the result is the expression itself.
C14_SubstHomomorphic ==
    (N >= 1 /\ Last.op = "subst_expr") =>
      /\ fatal = "none"
      /\ \A q \in Positions(Last.e) : RewrittenAt(Last.map, Last.e, Last.res, q)
      /\ DOMAIN Last.map = {} => Last.res = Last.e

\* A binary operation was substituted whose left operand is a variable mapped
\* to a variable the mapping maps in turn, the latter occurring below the
\* right operand: the image stands as it is, the operands are in their order
C14_Witness ==
    /\ N >= 1 /\ Last.op = "subst_expr" /\ fatal = "none"
    /\ DOMAIN Last.map = {"a", "b"}
    /\ Last.map["a"] = Var("b") /\ Last.map["b"] = Const(1)
    /\ Last.e = BinaryOp("Sub", Var("a"), UnaryOp("Neg", Var("b")))
    /\ Last.res = BinaryOp("Sub", Var("b"), UnaryOp("Neg", Const(1)))

-----------------------------------------------------------------------------
(* Checking the invariants of an ADT                                       *)

\* C15: an invariant is accepted only when the solver reports nothing.  A
\* check_invariant returned Ok exactly when it invoked the solver, once, over the
\* refine tree holding the contexts of all the variants, and the solver answered
\* with an empty list of errors; when the solver answered with a list that is
\* not empty it returned Err with the diagnostic Invalid at the span of the
\* invariant.
C15_OkIffNoErrors ==
    chk.pc # "idle" =>
      \A i \in DOMAIN chk.results :
        /\ chk.results[i].solves <= 1
        /\ chk.results[i].res = "Ok" <=>
             /\ chk.results[i].solves = 1
             /\ Len(chk.results[i].tree) = NumVariants(chk.adt)
             /\ chk.results[i].answer = "list"
             /\ chk.results[i].errors = {}
        /\ (chk.results[i].answer = "list" /\ chk.results[i].errors # {}) =>
             /\ chk.results[i].res = "Err"
             /\ chk.results[i].diag = "Invalid"
             /\ chk.results[i].span = chk.results[i].idx

\* Of the two invariants of an enum of two variants the first was accepted on an empty
\* list and the second rejected on a list that held the context of one variant only
C15_Witness ==
    /\ chk.pc = "done" /\ chk.adt = "Opt" /\ Len(chk.results) = MaxInvariants
    /\ chk.results[1].res = "Ok" /\ chk.results[1].errors = {}
    /\ Len(chk.results[1].tree) = NumVariants("Opt")
    /\ chk.results[Len(chk.results)].res = "Err"
    /\ Cardinality(chk.results[Len(chk.results)].errors) = 1

\* C16: fail-soft checking.  check_invariants returns only after check_invariant
\* has run for every declared invariant, in order, also after one of them
\* returned Err, and it returns Err if and only if one of them returned Err.
C16_FailSoft ==
    (chk.pc # "idle" /\ chk.ret # "none") =>
      /\ Len(chk.results) = chk.invariants
      /\ \A i \in DOMAIN chk.results : chk.results[i].idx = i - 1
      /\ chk.ret = "Err" <=> \E i \in DOMAIN chk.results : chk.results[i].res = "Err"

\* check_invariants returned Err after the first invariant had failed and a later
\* one had been checked and accepted
C16_Witness ==
    /\ chk.pc = "done" /\ chk.ret = "Err"
    /\ Len(chk.results) = MaxInvariants
    /\ chk.results[1].res = "Err"
    /\ chk.results[Len(chk.results)].res = "Ok"

-----------------------------------------------------------------------------
(* Variant mismatches                                                      *)

\* The last operation is a reconciliation of two heaps that hold, at a position
\* of a location of both, Records of different variants
ReconcilesClash ==
    /\ N >= 1 /\ Last.op \in {"unfold_with", "fold_unfold_with"}
    /\ \E l \in Shared(Last.pre, Last.pre_other) :
         VariantClash(Last.pre[l], Last.pre_other[l])

\* The last operation is an unfold (a downcast) of a Record of map, under a variant
\* other than the one it is tagged with
DowncastsClash(op, map) ==
    /\ N >= 1 /\ Last.op = op
    /\ NodeAtPath(map, Last.path).tag = "Adt"
    /\ NodeAtPath(map, Last.path).variant # Last.variant

\* The last operation is the resolution of a place that starts with a downcast
\* of a root Record to a variant other than the one it is tagged with
ResolvesClash ==
    /\ N >= 1 /\ Last.op = "lookup_place"
    /\ Last.place.projection # <<>>
    /\ Last.place.projection[1].e = "Downcast"
    /\ Last.place.local \in DOMAIN Last.pre
    /\ Last.pre[Last.place.local].tag = "Adt"
    /\ Last.pre[Last.place.local].variant # Last.place.projection[1].n

\* C21: a variant mismatch is fatal.  A reconciliation that meets a position
\* that is a Record of both sides under different variants, and a downcast to
\* a variant of a position unfolded under another, raise the fatal condition:
\* they do not return.
C21_VariantMismatchFatal ==
    ( \/ ReconcilesClash
      \/ (N >= 1 /\ Last.op = "unfold" /\ DowncastsClash("unfold", Last.pre))
      \/ (N >= 1 /\ Last.op = "unfold_other" /\ DowncastsClash("unfold_other", Last.pre_other))
      \/ ResolvesClash )
    => fatal # "none"

\* C21, the part the code keeps: in a build with debug assertions every such
\* operation raises the fatal condition
C21_FatalInDebugBuild ==
    ( /\ debug_assertions
      /\ \/ ReconcilesClash
         \/ (N >= 1 /\ Last.op = "unfold" /\ DowncastsClash("unfold", Last.pre))
         \/ (N >= 1 /\ Last.op = "unfold_other" /\ DowncastsClash("unfold_other", Last.pre_other))
         \/ ResolvesClash )
    => fatal = "debug_assert"

-----------------------------------------------------------------------------
(* What the pairs of types contribute to a fold                            *)

\* The expressions the pair of the actual type ty and the signature type sig
\* assigns to the declared index k: index by index for two indexed types (and
\* the generic arguments of two ADTs), through two shared references, and
\* nothing for any other pair
RECURSIVE Contrib(_, _, _)
Contrib(ty, sig, k) ==
    CASE ty.kind = "Indexed" /\ sig.kind = "Indexed" ->
           { ty.idxs[j] : j \in { j \in 1 .. MinLen(ty.idxs, sig.idxs) :
                                     sig.idxs[j] = BVar(k) } }
           \cup IF ty.bty.b = "Adt" /\ sig.bty.b = "Adt"
                THEN UNION { Contrib(ty.bty.substs[j], sig.bty.substs[j], k) :
                               j \in 1 .. MinLen(ty.bty.substs, sig.bty.substs) }
                ELSE {}
      [] ty.kind = "Ref" /\ sig.kind = "Ref" /\ ty.mode = "Shr" /\ sig.mode = "Shr" ->
           Contrib(ty.ty, sig.ty, k)
      [] OTHER -> {}

\* The last operation is a fold of a Record of Leaves
FoldOfLeaves ==
    /\ N >= 1 /\ Last.op = "fold"
    /\ NodeAtPath(Last.pre, Last.path).tag = "Adt"
    /\ AllLeaves(NodeAtPath(Last.pre, Last.path))

\* A field of the Record and the signature at its position are both raw pointers
PtrPair(rec) ==
    \E i \in 1 .. MinLen(rec.fields, AdtDef_variant_sig(rec.adt, rec.variant)) :
      /\ rec.fields[i].ty.kind = "Ptr"
      /\ AdtDef_variant_sig(rec.adt, rec.variant)[i].kind = "Ptr"

\* C22: pointer unification is a surfaced gap.  The fold of a Record with a raw
\* pointer in a field and in the signature at the same position raises the
\* fatal not-implemented condition and returns no Leaf; no other pair raises
\* it, and a pair of mutable references or of differing shapes assigns no
\* index: every index of the Leaf a fold returns is an expression assigned by a
\* pair of indexed types or of shared references.
C22_PointerGap ==
    FoldOfLeaves =>
      LET rec == NodeAtPath(Last.pre, Last.path)
          sig == AdtDef_variant_sig(rec.adt, rec.variant)
      IN /\ PtrPair(rec) => (fatal = "todo" /\ heap = Last.pre)
         /\ fatal = "todo" => PtrPair(rec)
         /\ fatal = "none" =>
              \A k \in 0 .. (AdtDef_sorts(rec.adt) - 1) :
                NodeAtPath(heap, Last.path).ty.idxs[k + 1] \in
                  UNION { Contrib(rec.fields[i].ty, sig[i], k) :
                            i \in 1 .. MinLen(rec.fields, sig) }

\* A fold of a Record with a pair of raw pointers raised the not-implemented
\* condition
C22_Witness ==
    /\ FoldOfLeaves /\ PtrPair(NodeAtPath(Last.pre, Last.path))
    /\ fatal = "todo"

\* A fold returned at a Record with a mutable reference in a field and in the
\* signature at the same position: the index of the Leaf is the one of the other
\* field, not the one under the mutable reference
C22_WitnessMut ==
    /\ FoldOfLeaves /\ fatal = "none"
    /\ NodeAtPath(Last.pre, Last.path).adt = "MutPair"
    /\ NodeAtPath(Last.pre, Last.path).fields[1].ty = Ref("Mut", I32(Const(2)))
    /\ NodeAtPath(heap, Last.path).ty.idxs = <<Const(1)>>

-----------------------------------------------------------------------------
(* Substitution of types and predicates                                    *)

\* res is the predicate variable pred with every argument substituted
KVarKept(map, pred, res) ==
    /\ res.pk = "KVar"
    /\ res.kvid = pred.kvid
    /\ Len(res.args) = Len(pred.args)
    /\ \A j \in DOMAIN pred.args : res.args[j] = subst_expr(map, pred.args[j])

\* res is the predicate pred with the mapping applied
PredKept(map, pred, res) ==
    IF pred.pk = "KVar" THEN KVarKept(map, pred, res)
    ELSE res.pk = "Expr" /\ res.e = subst_expr(map, pred.e)

\* C23: substitution preserves the shape of types and predicates.  subst_ty of
\* an existential type keeps its base type and its bound variable and applies
\* the mapping to the body predicate only; subst_ty of Uninit, MutRef and Param
\* returns the type; subst_pred of a predicate variable returns the same
\* identifier with as many arguments, in their order, each the subst_expr of the
\* original one.
C23_ShapePreserved ==
    /\ (N >= 1 /\ Last.op = "subst_ty" /\ Last.ty.kind = "Exists") =>
         /\ Last.res.kind = "Exists"
         /\ Last.res.bty = Last.ty.bty
         /\ Last.res.evar = Last.ty.evar
         /\ PredKept(Last.map, Last.ty.pred, Last.res.pred)
    /\ (N >= 1 /\ Last.op = "subst_ty" /\ Last.ty.kind \in {"Uninit", "MutRef", "Param"}) =>
         Last.res = Last.ty
    /\ (N >= 1 /\ Last.op = "subst_pred" /\ Last.pred.pk = "KVar") =>
         KVarKept(Last.map, Last.pred, Last.res)

\* An existential type binding a mapped variable, over a predicate variable of two
\* different arguments, was substituted and both arguments changed
C23_Witness ==
    /\ N >= 1 /\ Last.op = "subst_ty" /\ fatal = "none"
    /\ Last.ty = Exists(IntBty, "a", KVar(1, <<Var("a"), Var("b")>>))
    /\ Last.map = [x \in {"a", "b"} |-> IF x = "a" THEN Var("b") ELSE Const(1)]
    /\ Last.res = Exists(IntBty, "a", KVar(1, <<Var("b"), Const(1)>>))

-----------------------------------------------------------------------------
(* The obligations of check_invariant                                      *)

\* The contexts of tree are, in order, those of the first variants of ADT d for
\* invariant idx: the fields of the variant assumed, the invariant applied to
\* the index of the variant asserted
OnePerVariant(d, idx, tree) ==
    \A j \in DOMAIN tree :
      /\ tree[j].variant = j - 1
      /\ tree[j].assumed = AdtDef_variant_sig(d, j - 1)
      /\ tree[j].pred = [invariant |-> idx, variant |-> j - 1]

\* C24: one obligation per variant, then one solve.  Every check_invariant of
\* an ADT of N variants asserts the invariant N times, once per variant in a
\* context of the same refine tree after assuming the invariants of the fields
\* of the variant, and invokes the solver once, after the N assertions.
C24_OnePerVariantOneSolve ==
    chk.pc # "idle" =>
      \A i \in DOMAIN chk.results :
        /\ Len(chk.results[i].tree) = NumVariants(chk.adt)
        /\ OnePerVariant(chk.adt, chk.results[i].idx, chk.results[i].tree)
        /\ chk.results[i].solves = 1

\* C24 as the code has it: a check_invariant that invokes the solver does so
\* once, after it asserted the invariant once per variant, N times; one that
\* returns before (RefineTree::new or variant_sig failed) has asserted it for
\* the variants before the failure only and has not invoked the solver; and the
\* solver is never invoked while the loop over the variants runs.
C24_OnePerVariantWhenSolved ==
    chk.pc # "idle" =>
      /\ chk.pc = "variants" =>
           /\ chk.solves = 0
           /\ Len(chk.tree) = chk.variant
           /\ OnePerVariant(chk.adt, chk.idx, chk.tree)
      /\ \A i \in DOMAIN chk.results :
           /\ OnePerVariant(chk.adt, chk.results[i].idx, chk.results[i].tree)
           /\ IF chk.results[i].answer = "none"
              THEN /\ chk.results[i].solves = 0
                   /\ Len(chk.results[i].tree) < NumVariants(chk.adt)
                   /\ chk.results[i].res = "Err"
              ELSE /\ chk.results[i].solves = 1
                   /\ Len(chk.results[i].tree) = NumVariants(chk.adt)

\* A check_invariant of an enum of two variants invoked the solver after two
\* assertions, and an earlier one returned on a failed variant_sig after one
C24_Witness ==
    /\ chk.pc # "idle" /\ chk.adt = "Opt" /\ Len(chk.results) = MaxInvariants
    /\ chk.results[1].answer = "none" /\ Len(chk.results[1].tree) = 1
    /\ chk.results[Len(chk.results)].solves = 1
    /\ Len(chk.results[Len(chk.results)].tree) = NumVariants("Opt")

-----------------------------------------------------------------------------
(* insert                                                                  *)

\* C25: insert resets a location to a Leaf.  After insert(loc, ty), on a
\* location that was absent, a Leaf or a Record of any depth, the location holds
\* the single Leaf ty: paths() yields for loc exactly one Path, with no fields,
\* get of that Path returns ty, and every other location is as it was.
C25_InsertResets ==
    (N >= 1 /\ Last.op = "insert") =>
      /\ fatal = "none"
      /\ heap[Last.loc] = NodeTy(Last.ty)
      /\ Cardinality({ i \in DOMAIN paths(heap) : paths(heap)[i].loc = Last.loc }) = 1
      /\ \A i \in DOMAIN paths(heap) :
           paths(heap)[i].loc = Last.loc => paths(heap)[i] = Path(Last.loc, <<>>)
      /\ get(heap, Path(Last.loc, <<>>)) = [some |-> TRUE, ty |-> Last.ty, fatal |-> "none"]
      /\ DOMAIN heap = (DOMAIN Last.pre) \cup {Last.loc}
      /\ \A l \in (DOMAIN heap) \ {Last.loc} : heap[l] = Last.pre[l]

\* An insert replaced a Record that held a Record, next to another location
C25_Witness ==
    /\ N >= 1 /\ Last.op = "insert" /\ fatal = "none"
    /\ Last.loc \in DOMAIN Last.pre
    /\ Last.pre[Last.loc].tag = "Adt"
    /\ \E i \in DOMAIN Last.pre[Last.loc].fields : Last.pre[Last.loc].fields[i].tag = "Adt"
    /\ heap[Last.loc] = NodeTy(Last.ty)
    /\ Cardinality(DOMAIN heap) > 1

-----------------------------------------------------------------------------
(* get and the iterators                                                   *)

\* The Paths looked up in a map: the roots of the locations it has not, with
\* and without a field, and every position of a node of the map, as it is and
\* extended by a field (into the node, through a Leaf, or past the fields of
\* every ADT)
CandPaths(map) ==
    { Path(l, q) : l \in Locs \ DOMAIN map, q \in {<<>>, <<0>>} }
    \cup UNION { { Path(p.loc, p.proj \o q) : q \in {<<>>} \cup { <<f>> : f \in 0 .. 2 } }
                 : p \in PosOf(map) }

\* The Paths get returns a type for (a get that panics on an index past the
\* fields returns nothing)
Found(map) == { p \in CandPaths(map) : get(map, p).some }

PathSet(items) == { items[i].path : i \in DOMAIN items }

\* A proper prefix of the path is the position of a Leaf of the map
RECURSIVE ThroughLeaf(_, _)
ThroughLeaf(node, proj) ==
    /\ proj # <<>>
    /\ \/ node.tag = "Ty"
       \/ /\ Head(proj) < Len(node.fields)
          /\ ThroughLeaf(node.fields[Head(proj) + 1], Tail(proj))

\* The path is the position of a Record of the map
RECURSIVE EndsAtRecord(_, _)
EndsAtRecord(node, proj) ==
    /\ node.tag = "Adt"
    /\ \/ proj = <<>>
       \/ /\ proj # <<>> /\ Head(proj) < Len(node.fields)
          /\ EndsAtRecord(node.fields[Head(proj) + 1], Tail(proj))

\* The path names no Leaf of the map: its location is missing, it ends at a
\* Record, or it projects through a Leaf
NoLeafAt(map, p) ==
    \/ p.loc \notin DOMAIN map
    \/ EndsAtRecord(map[p.loc], p.proj)
    \/ ThroughLeaf(map[p.loc], p.proj)

\* C26: direct lookup and iteration agree.  In every reachable heap, for every
\* Path whose field indices are within bounds, get returns Some if and only if
\* paths() yields the Path; get returns None for a missing location, for a Path
\* that ends at a Record and for a Path that projects through a Leaf; iter() and
\* iter_mut() yield the same Paths.
C26_GetAgreesWithPaths ==
    /\ Found(heap) = PathSet(iter(heap))
    /\ \A p \in CandPaths(heap) :
         NoLeafAt(heap, p) => get(heap, p) = [some |-> FALSE, fatal |-> "none"]
    /\ PathSet(iter(heap)) = PathSet(iter_mut(heap))

\* A heap with a missing location, a Record that holds a Record, and Leaves at
\* two depths: paths() yields the Leaves only
C26_Witness ==
    /\ "x" \in DOMAIN heap /\ "z" \notin DOMAIN heap
    /\ heap["x"].tag = "Adt" /\ Len(heap["x"].fields) > 1
    /\ EndsAtRecord(heap["x"], <<0>>)
    /\ ThroughLeaf(heap["x"], <<1, 0>>)
    /\ Path("x", <<0, 1>>) \in PathSet(iter(heap))
    /\ Path("x", <<1>>) \in PathSet(iter_mut(heap))
    /\ Path("x", <<0>>) \notin PathSet(iter(heap))

-----------------------------------------------------------------------------
(* PathsTree::subst.  An FVarSubst is the renaming of the locations and    *)
(* the map of the refinement variables to their images; apply rewrites a   *)
(* type with both.                                                         *)

MaxSubstOps == 3     \* operations per run of the heap substitution specification

\* subst.subst_loc(loc)
FVarSubst_subst_loc(s, loc) == IF loc \in DOMAIN s.locs THEN s.locs[loc] ELSE loc

\* the image of an index expression
FVarSubst_expr(s, e) ==
    IF e.ek \in {"Var", "BinaryOp", "UnaryOp"} THEN subst_expr(s.exprs, e) ELSE e

\* subst.apply(ty)
RECURSIVE FVarSubst_apply(_, _)
FVarSubst_apply(s, ty) ==
    CASE ty.kind = "Indexed" ->
           Indexed(
             IF ty.bty.b = "Adt"
               THEN AdtBty(ty.bty.def,
                           [i \in DOMAIN ty.bty.substs |->
                              FVarSubst_apply(s, ty.bty.substs[i])])
               ELSE ty.bty,
             [i \in DOMAIN ty.idxs |-> FVarSubst_expr(s, ty.idxs[i])])
      [] ty.kind = "Ptr" -> Ptr(Path(FVarSubst_subst_loc(s, ty.path.loc), ty.path.proj))
      [] ty.kind = "Ref" -> Ref(ty.mode, FVarSubst_apply(s, ty.ty))
      [] OTHER -> ty

RECURSIVE Node_subst_mut(_, _)
\* Node::subst_mut rewriting a Leaf and leaving the fields of a Record alone
Node_subst_mut_shallow(s, node) ==
    IF node.tag = "Ty" THEN NodeTy(FVarSubst_apply(s, node.ty)) ELSE node

\* Node::subst_mut
Node_subst_mut(s, node) ==
    IF node.tag = "Ty" THEN NodeTy(FVarSubst_apply(s, node.ty))
    ELSE NodeAdt(node.adt, node.variant,
                 [i \in DOMAIN node.fields |-> Node_subst_mut(s, node.fields[i])])

\* The keys of the collected map
subst_keys(map, s) == { FVarSubst_subst_loc(s, l) : l \in DOMAIN map }

\* The ways collect() can settle the keys: per key of the result, the
\* location whose pair was inserted last among those renamed to it. The
\* order of into_iter() over the hash map is not specified.
subst_picks(map, s) ==
    { pick \in [subst_keys(map, s) -> DOMAIN map] :
        \A k \in subst_keys(map, s) : FVarSubst_subst_loc(s, pick[k]) = k }

\* PathsTree::subst, collect() having kept the pair of pick[k] at key k
subst(map, s, pick) == [k \in DOMAIN pick |-> Node_subst_mut(s, map[pick[k]])]

TreeSubst(s) ==
    /\ Running
    /\ \E pick \in subst_picks(heap, s) :
         Done(subst(heap, s, pick), other, Entry("subst", [subst |-> s]))

SubstLeavesX ==
    { Indexed(AdtBty("Outer", <<>>), <<Var("a"), Const(1)>>), I32(Var("a")), Ptr(LocY) }

SubstLeavesY == { Ptr(LocX), Indexed(AdtBty("Pair", <<>>), <<Var("b"), Var("a")>>) }

\* renamings of the locations: none, x to z, x and y exchanged, x onto y
LocRenamings ==
    { [l \in {} |-> "x"], "x" :> "z", ("x" :> "y") @@ ("y" :> "x"), "x" :> "y" }

ExprMaps == { [v \in {} |-> Const(0)], "a" :> Const(7), ("a" :> Var("b")) @@ ("b" :> Const(3)) }

FVarSubsts == { [locs |-> r, exprs |-> m] : r \in LocRenamings, m \in ExprMaps }

SubstRunning == Running /\ Len(log) < MaxSubstOps

InitTreeSubst ==
    /\ heap \in { ("x" :> NodeTy(tx)) @@ ("y" :> NodeTy(ty)) :
                    tx \in SubstLeavesX, ty \in SubstLeavesY }
    /\ other = EmptyMap
    /\ log = <<>>
    /\ fatal = "none"
    /\ debug_assertions \in BOOLEAN
    /\ chk = NoCheck

NextTreeSubst ==
    \/ \E p \in PosOf(heap) : SubstRunning /\ Unfold(p, 0)
    \/ \E s \in FVarSubsts : SubstRunning /\ TreeSubst(s)

SpecTreeSubst == InitTreeSubst /\ [][NextTreeSubst]_vars

-----------------------------------------------------------------------------
(* The route of a resolution: per location entered, the fields walked in   *)
(* it. The place starts a walk at its local; a dereference ends the walk   *)
(* in progress, a pointer followed starts one at the pointee's path, and   *)
(* behind a reference the elements are projected out of the type, no node  *)
(* being walked until a pointer is followed again.                         *)
RECURSIVE RouteSegs(_, _, _, _)
RouteSegs(elems, ds, inheap, cur) ==
    IF elems = <<>> THEN (IF inheap THEN {cur} ELSE {})
    ELSE CASE Head(elems).e = "Field" ->
                RouteSegs(Tail(elems), ds, inheap,
                          IF inheap THEN Path(cur.loc, Append(cur.proj, Head(elems).n))
                          ELSE cur)
           [] Head(elems).e = "Deref" /\ ds # <<>> ->
                (IF inheap THEN {cur} ELSE {})
                \cup IF Head(ds).d = "Ptr"
                     THEN RouteSegs(Tail(elems), Tail(ds), TRUE, Head(ds).path)
                     ELSE RouteSegs(Tail(elems), Tail(ds), FALSE, cur)
           [] OTHER -> RouteSegs(Tail(elems), ds, inheap, cur)

RouteOf(entry) ==
    RouteSegs(entry.place.projection, entry.derefs, TRUE, Path(entry.place.local, <<>>))

\* The walked paths of a route inside location l
RoutesIn(route, l) == { s.proj : s \in { t \in route : t.loc = l } }

\* The walked paths continuing below field f (counted from 0)
RoutesBelow(routes, f) ==
    { Tail(r) : r \in { q \in routes : q # <<>> /\ Head(q) = f } }

\* A node after a resolution against the node before it: off the route it
\* is the same node; where a walk ended the subtree may have been folded;
\* a Leaf on the route may have been unfolded; a Record on the route is
\* still a Record of the same fields, each kept in the same sense.
RECURSIVE OffRouteKept(_, _, _)
OffRouteKept(before, after, routes) ==
    IF routes = {} THEN after = before
    ELSE IF <<>> \in routes THEN TRUE
    ELSE IF before.tag = "Ty" THEN TRUE
    ELSE /\ after.tag = "Adt"
         /\ after.adt = before.adt
         /\ after.variant = before.variant
         /\ Len(after.fields) = Len(before.fields)
         /\ \A i \in DOMAIN before.fields :
              OffRouteKept(before.fields[i], after.fields[i], RoutesBelow(routes, i - 1))

\* C27: lookup_place changes the representation only of positions on the
\* walked route (prefixes of the paths it traverses in the root location and
\* in each pointee it follows) and of the subtree below each position it
\* folds; sibling fields that existed before the call and every location not
\* on the route are unchanged. Last.map is the heap as the resolution left
\* it, Last.pre the heap before the call.
C27_OnlyRouteTouched ==
    Resolved =>
        /\ DOMAIN Last.map = DOMAIN Last.pre
        /\ \A l \in DOMAIN Last.pre :
             OffRouteKept(Last.pre[l], Last.map[l], RoutesIn(RouteOf(Last), l))

\* x was a Record of two fields whose field 0 was a Record too; resolving
\* x.0 folded field 0 back to a Leaf and left field 1 and the location y,
\* which the route does not enter, as they were
C27_Witness ==
    /\ Resolved
    /\ Last.place = Place("x", <<Field(0)>>)
    /\ "y" \in DOMAIN Last.pre
    /\ Last.pre["x"].tag = "Adt" /\ Len(Last.pre["x"].fields) = 2
    /\ Last.pre["x"].fields[1].tag = "Adt"
    /\ Last.map["x"].tag = "Adt"
    /\ Last.map["x"].fields[1].tag = "Ty"
    /\ Last.map["x"].fields[2] = Last.pre["x"].fields[2]
    /\ Last.map["y"] = Last.pre["y"]

-----------------------------------------------------------------------------
\* A node after the substitution s against the node before it: a Leaf
\* carries the type s gives to the type it carried, a Record is the Record
\* of the same ADT and variant with as many fields, each kept in this sense
\* at the same index
RECURSIVE SubstKept(_, _, _)
SubstKept(s, before, after) ==
    IF before.tag = "Ty"
    THEN after.tag = "Ty" /\ after.ty = FVarSubst_apply(s, before.ty)
    ELSE /\ after.tag = "Adt"
         /\ after.adt = before.adt
         /\ after.variant = before.variant
         /\ Len(after.fields) = Len(before.fields)
         /\ \A i \in DOMAIN before.fields :
              SubstKept(s, before.fields[i], after.fields[i])

Substituted == N >= 1 /\ Last.op = "subst" /\ fatal = "none"

\* The renaming of s sends no two keys of the map to one location
InjectiveOn(s, map) ==
    \A l1, l2 \in DOMAIN map :
        FVarSubst_subst_loc(s, l1) = FVarSubst_subst_loc(s, l2) => l1 = l2

\* C28: PathsTree::subst keeps the structure of the tree: the keys of the
\* result are the renamed keys, every root of the result is the root of a
\* location renamed to its key with the same Leaf/Record shape, variant tags
\* and field order and the substitution applied to the type of every Leaf,
\* and when the renaming is injective on the keys the result has as many
\* locations as the original, each root being found at its renamed key.
C28_SubstKeepsStructure ==
    Substituted =>
        /\ DOMAIN heap = { FVarSubst_subst_loc(Last.subst, l) : l \in DOMAIN Last.pre }
        /\ \A k \in DOMAIN heap :
             \E l \in DOMAIN Last.pre :
                 /\ FVarSubst_subst_loc(Last.subst, l) = k
                 /\ SubstKept(Last.subst, Last.pre[l], heap[k])
        /\ InjectiveOn(Last.subst, Last.pre) =>
               /\ Cardinality(DOMAIN heap) = Cardinality(DOMAIN Last.pre)
               /\ \A l \in DOMAIN Last.pre :
                    SubstKept(Last.subst, Last.pre[l],
                              heap[FVarSubst_subst_loc(Last.subst, l)])

\* x, a Record holding a Record, was renamed to z by a substitution giving
\* the variable a an image: z is that Record with rewritten Leaves, and the
\* pointer of y to x now points to z
C28_Witness ==
    /\ Substituted
    /\ Last.subst.locs = "x" :> "z"
    /\ "a" \in DOMAIN Last.subst.exprs
    /\ DOMAIN Last.pre = {"x", "y"}
    /\ Last.pre["x"].tag = "Adt"
    /\ Last.pre["x"].fields[1].tag = "Adt"
    /\ Last.pre["x"].fields[1].fields[1] = NodeTy(I32(Var("a")))
    /\ Last.pre["y"] = NodeTy(Ptr(LocX))
    /\ DOMAIN heap = {"z", "y"}
    /\ heap["z"].tag = "Adt"
    /\ heap["z"].fields[1].tag = "Adt"
    /\ heap["z"].fields[1].fields[1] # Last.pre["x"].fields[1].fields[1]
    /\ heap["y"] = NodeTy(Ptr(LocZ))

====
